---------------------------- MODULE Spec2Model ----------------------------
(***************************************************************************)
(* A model of the gemini-mcp-client-ts tool bridge: the discovery pass of  *)
(* mcpToolRegistry.ts, the per-connection client of mcpClientService.ts    *)
(* and the function-calling loop of geminiService.ts.                      *)
(*                                                                         *)
(* Strings that the code takes apart (server names, tool names, function  *)
(* names) are sequences of one-character strings; a string the code only   *)
(* passes along is a TLA+ string.  A text built by a template literal is   *)
(* the tuple of its pieces.  A value that may be undefined/null is the     *)
(* record Undefined or a record without the field "undefined".             *)
(***************************************************************************)
EXTENDS Naturals, Integers, Sequences, FiniteSets, TLC

Undefined == [undefined |-> TRUE]

IsDefined(x) == "undefined" \notin DOMAIN x

\* r with the fields of s added (Object spread / property assignment).
Assign(r, s) ==
    [k \in DOMAIN r \cup DOMAIN s |-> IF k \in DOMAIN s THEN s[k] ELSE r[k]]

(***************************************************************************)
(* mcpToolRegistry.ts: name derivation.                                    *)
(***************************************************************************)

Lower == {"a","b","c","d","e","f","g","h","i","j","k","l","m",
          "n","o","p","q","r","s","t","u","v","w","x","y","z"}

Upper == {"A","B","C","D","E","F","G","H","I","J","K","L","M",
          "N","O","P","Q","R","S","T","U","V","W","X","Y","Z"}

Digit == {"0","1","2","3","4","5","6","7","8","9"}

\* The characters the class [a-zA-Z0-9_] of lines 134-135 matches.
IdentChars == Lower \cup Upper \cup Digit \cup {"_"}

\* The longest function name line 137 lets through.
MaxFunctionNameLen == 63

\* str.replace(/[^a-zA-Z0-9_]/g, '_')
Sanitize(str) ==
    [i \in 1..Len(str) |-> IF str[i] \in IdentChars THEN str[i] ELSE "_"]

\* Lines 134-139 with the cut one character late.
GeminiFunctionName_CutAt64(mcpServerName, mcpToolName) ==
    LET geminiFunctionName == Sanitize(mcpServerName) \o <<"_">> \o Sanitize(mcpToolName)
    IN  IF Len(geminiFunctionName) > MaxFunctionNameLen + 1
        THEN SubSeq(geminiFunctionName, 1, MaxFunctionNameLen + 1)
        ELSE geminiFunctionName

\* Lines 134-139 naming the function after the tool alone.
GeminiFunctionName_ToolOnly(mcpServerName, mcpToolName) ==
    LET geminiFunctionName == Sanitize(mcpToolName)
    IN  IF Len(geminiFunctionName) > MaxFunctionNameLen
        THEN SubSeq(geminiFunctionName, 1, MaxFunctionNameLen)
        ELSE geminiFunctionName

\* Lines 134-139: `${sanitizedServerName}_${sanitizedMcpToolName}`, cut to 63.
GeminiFunctionName(mcpServerName, mcpToolName) ==
    LET geminiFunctionName == Sanitize(mcpServerName) \o <<"_">> \o Sanitize(mcpToolName)
    IN  IF Len(geminiFunctionName) > MaxFunctionNameLen
        THEN SubSeq(geminiFunctionName, 1, MaxFunctionNameLen)
        ELSE geminiFunctionName


(***************************************************************************)
(* mcpToolRegistry.ts: schema translation.                                 *)
(*                                                                         *)
(* A schema node is the record [boolean |-> b] (a boolean schema) or a     *)
(* record holding the fields the server sent, among type, description,    *)
(* enum, properties, items, required.  The value of `type` and of `enum`   *)
(* is a JavaScript value: [str |-> s], [arr |-> <<...>>], [num |-> n],     *)
(* [bool |-> b] or [null |-> TRUE].  `properties` is a function from keys  *)
(* to schema nodes, `required` a sequence of keys.                         *)
(***************************************************************************)

Str(s) == [str |-> s]

Arr(a) == [arr |-> a]

JsNull == [null |-> TRUE]

\* SchemaType of @google/generative-ai, as used at lines 37-42.
SchemaType(t) == [schemaType |-> t]

IsBooleanSchema(x) == "boolean" \in DOMAIN x

\* JavaScript truthiness of the values a schema field can hold.
Truthy(x) ==
    CASE ~IsDefined(x)         -> FALSE
      [] "null" \in DOMAIN x    -> FALSE
      [] "boolean" \in DOMAIN x -> x.boolean
      [] "bool" \in DOMAIN x    -> x.bool
      [] "str" \in DOMAIN x     -> x.str # ""
      [] "num" \in DOMAIN x     -> x.num # 0
      [] OTHER                  -> TRUE

\* typeof x === 'object' && !Array.isArray(x), for a value that is not null.
IsPlainObject(x) ==
    DOMAIN x \cap {"undefined", "null", "boolean", "bool", "str", "num", "arr"} = {}

\* obj.field, undefined when the object does not have it.
Field(obj, f) == IF f \in DOMAIN obj THEN obj[f] ELSE Undefined

\* String(v) of line 75.
JsString(v) ==
    CASE "str" \in DOMAIN v  -> v.str
      [] "num" \in DOMAIN v  -> ToString(v.num)
      [] "bool" \in DOMAIN v -> IF v.bool THEN "true" ELSE "false"
      [] "null" \in DOMAIN v -> "null"
      [] OTHER               -> "[object Object]"

\* The least element of a non-empty set of numbers.
Least(S) == CHOOSE i \in S : \A j \in S : i <= j

\* Lines 30-48.
RECURSIVE mcpSchemaTypeToGeminiSchemaType(_)
mcpSchemaTypeToGeminiSchemaType(mcpType) ==
    IF "arr" \in DOMAIN mcpType
    THEN LET found == {i \in 1..Len(mcpType.arr) :
                          /\ "null" \notin DOMAIN mcpType.arr[i]
                          /\ IsDefined(mcpType.arr[i])}
         IN  IF found = {}
             THEN Undefined
             ELSE LET nonNullType == mcpType.arr[Least(found)]
                  IN  IF Truthy(nonNullType)
                      THEN mcpSchemaTypeToGeminiSchemaType(nonNullType)
                      ELSE Undefined
    ELSE IF "str" \in DOMAIN mcpType
    THEN CASE mcpType.str = "string"  -> SchemaType("STRING")
           [] mcpType.str = "number"  -> SchemaType("NUMBER")
           [] mcpType.str = "integer" -> SchemaType("INTEGER")
           [] mcpType.str = "boolean" -> SchemaType("BOOLEAN")
           [] mcpType.str = "array"   -> SchemaType("ARRAY")
           [] mcpType.str = "object"  -> SchemaType("OBJECT")
           [] mcpType.str = "null"    -> Undefined
           [] OTHER                   -> Undefined
    ELSE Undefined

\* The empty object schema of line 103.
EmptyObjectSchema ==
    [type |-> SchemaType("OBJECT"), properties |-> <<>>, required |-> <<>>]

RECURSIVE translateMcpPropertiesToGeminiProperties(_)
RECURSIVE translateMcpSchemaToGeminiSchema(_)

\* Lines 69-90 carrying the enum over whatever the type (line 74 without its
\* last test).
translateProperty_EnumAnyType(key, mcpPropSchema, geminiType) ==
    LET base == [type |-> geminiType,
                 description |->
                    IF Truthy(Field(mcpPropSchema, "description"))
                    THEN <<mcpPropSchema.description.str>>
                    ELSE <<"Parameter ", key>>]
        enum == Field(mcpPropSchema, "enum")
        withEnum ==
            IF Truthy(enum) /\ "arr" \in DOMAIN enum
            THEN Assign(base, [enum |-> [i \in 1..Len(enum.arr) |-> JsString(enum.arr[i])]])
            ELSE base
        items == Field(mcpPropSchema, "items")
        properties == Field(mcpPropSchema, "properties")
    IN  IF geminiType = SchemaType("ARRAY") /\ Truthy(items)
        THEN IF IsPlainObject(items)
             THEN LET itemSchema == translateMcpSchemaToGeminiSchema(items)
                  IN  IF IsDefined(itemSchema)
                      THEN Assign(withEnum, [items |-> itemSchema])
                      ELSE withEnum
             ELSE withEnum
        ELSE IF geminiType = SchemaType("OBJECT") /\ IsDefined(properties)
        THEN LET nestedProperties == translateMcpPropertiesToGeminiProperties(properties)
                 withProps == IF IsDefined(nestedProperties)
                              THEN Assign(withEnum, [properties |-> nestedProperties])
                              ELSE withEnum
             IN  IF "required" \in DOMAIN mcpPropSchema
                 THEN Assign(withProps, [required |-> mcpPropSchema.required])
                 ELSE withProps
        ELSE withEnum

\* Lines 69-90 without line 81: the translated items are never attached.
translateProperty_NoItems(key, mcpPropSchema, geminiType) ==
    LET base == [type |-> geminiType,
                 description |->
                    IF Truthy(Field(mcpPropSchema, "description"))
                    THEN <<mcpPropSchema.description.str>>
                    ELSE <<"Parameter ", key>>]
        enum == Field(mcpPropSchema, "enum")
        withEnum ==
            IF Truthy(enum) /\ "arr" \in DOMAIN enum /\ geminiType = SchemaType("STRING")
            THEN Assign(base, [enum |-> [i \in 1..Len(enum.arr) |-> JsString(enum.arr[i])]])
            ELSE base
        items == Field(mcpPropSchema, "items")
        properties == Field(mcpPropSchema, "properties")
    IN  IF geminiType = SchemaType("ARRAY") /\ Truthy(items)
        THEN IF IsPlainObject(items)
             THEN LET itemSchema == translateMcpSchemaToGeminiSchema(items)
                  IN  withEnum
             ELSE withEnum
        ELSE IF geminiType = SchemaType("OBJECT") /\ IsDefined(properties)
        THEN LET nestedProperties == translateMcpPropertiesToGeminiProperties(properties)
                 withProps == IF IsDefined(nestedProperties)
                              THEN Assign(withEnum, [properties |-> nestedProperties])
                              ELSE withEnum
             IN  IF "required" \in DOMAIN mcpPropSchema
                 THEN Assign(withProps, [required |-> mcpPropSchema.required])
                 ELSE withProps
        ELSE withEnum

\* Lines 69-90 with the items of a scalar type translated as that type, not
\* through translateMcpSchemaToGeminiSchema.
translateProperty_ScalarItems(key, mcpPropSchema, geminiType) ==
    LET base == [type |-> geminiType,
                 description |->
                    IF Truthy(Field(mcpPropSchema, "description"))
                    THEN <<mcpPropSchema.description.str>>
                    ELSE <<"Parameter ", key>>]
        enum == Field(mcpPropSchema, "enum")
        withEnum ==
            IF Truthy(enum) /\ "arr" \in DOMAIN enum /\ geminiType = SchemaType("STRING")
            THEN Assign(base, [enum |-> [i \in 1..Len(enum.arr) |-> JsString(enum.arr[i])]])
            ELSE base
        items == Field(mcpPropSchema, "items")
        properties == Field(mcpPropSchema, "properties")
    IN  IF geminiType = SchemaType("ARRAY") /\ Truthy(items)
        THEN IF IsPlainObject(items)
             THEN LET itemType == mcpSchemaTypeToGeminiSchemaType(Field(items, "type"))
                      itemSchema ==
                          IF Field(items, "type") = Str("object") \/ ~IsDefined(itemType)
                          THEN translateMcpSchemaToGeminiSchema(items)
                          ELSE [type |-> itemType]
                  IN  IF IsDefined(itemSchema)
                      THEN Assign(withEnum, [items |-> itemSchema])
                      ELSE withEnum
             ELSE withEnum
        ELSE IF geminiType = SchemaType("OBJECT") /\ IsDefined(properties)
        THEN LET nestedProperties == translateMcpPropertiesToGeminiProperties(properties)
                 withProps == IF IsDefined(nestedProperties)
                              THEN Assign(withEnum, [properties |-> nestedProperties])
                              ELSE withEnum
             IN  IF "required" \in DOMAIN mcpPropSchema
                 THEN Assign(withProps, [required |-> mcpPropSchema.required])
                 ELSE withProps
        ELSE withEnum

\* Lines 69-90: the translation of one property that was not skipped.
translateProperty(key, mcpPropSchema, geminiType) ==
    LET base == [type |-> geminiType,
                 description |->
                    IF Truthy(Field(mcpPropSchema, "description"))
                    THEN <<mcpPropSchema.description.str>>
                    ELSE <<"Parameter ", key>>]
        enum == Field(mcpPropSchema, "enum")
        withEnum ==
            IF Truthy(enum) /\ "arr" \in DOMAIN enum /\ geminiType = SchemaType("STRING")
            THEN Assign(base, [enum |-> [i \in 1..Len(enum.arr) |-> JsString(enum.arr[i])]])
            ELSE base
        items == Field(mcpPropSchema, "items")
        properties == Field(mcpPropSchema, "properties")
    IN  IF geminiType = SchemaType("ARRAY") /\ Truthy(items)
        THEN IF IsPlainObject(items)
             THEN LET itemSchema == translateMcpSchemaToGeminiSchema(items)
                  IN  IF IsDefined(itemSchema)
                      THEN Assign(withEnum, [items |-> itemSchema])
                      ELSE withEnum
             ELSE withEnum
        ELSE IF geminiType = SchemaType("OBJECT") /\ IsDefined(properties)
        THEN LET nestedProperties == translateMcpPropertiesToGeminiProperties(properties)
                 withProps == IF IsDefined(nestedProperties)
                              THEN Assign(withEnum, [properties |-> nestedProperties])
                              ELSE withEnum
             IN  IF "required" \in DOMAIN mcpPropSchema
                 THEN Assign(withProps, [required |-> mcpPropSchema.required])
                 ELSE withProps
        ELSE withEnum

\* Lines 50-93 giving up on the whole mapping at the first property that
\* cannot be translated.
translateMcpPropertiesToGeminiProperties_AllOrNothing(mcpProperties) ==
    IF ~IsDefined(mcpProperties)
    THEN Undefined
    ELSE LET kept == {key \in DOMAIN mcpProperties :
                         /\ ~IsBooleanSchema(mcpProperties[key])
                         /\ IsDefined(mcpSchemaTypeToGeminiSchemaType(
                                         Field(mcpProperties[key], "type")))}
         IN  IF kept # DOMAIN mcpProperties
             THEN <<>>
             ELSE [key \in kept |->
                     translateProperty(key, mcpProperties[key],
                         mcpSchemaTypeToGeminiSchemaType(Field(mcpProperties[key], "type")))]

\* Lines 50-93.
translateMcpPropertiesToGeminiProperties(mcpProperties) ==
    IF ~IsDefined(mcpProperties)
    THEN Undefined
    ELSE LET kept == {key \in DOMAIN mcpProperties :
                         /\ ~IsBooleanSchema(mcpProperties[key])
                         /\ IsDefined(mcpSchemaTypeToGeminiSchemaType(
                                         Field(mcpProperties[key], "type")))}
         IN  [key \in kept |->
                 translateProperty(key, mcpProperties[key],
                     mcpSchemaTypeToGeminiSchemaType(Field(mcpProperties[key], "type")))]

\* Lines 95-113 with line 103 returning no schema.
translateMcpSchemaToGeminiSchema_FailsOnNonObject(mcpSchema) ==
    IF IsBooleanSchema(mcpSchema)
    THEN Undefined
    ELSE IF Field(mcpSchema, "type") # Str("object")
    THEN Undefined
    ELSE LET geminiProperties ==
                 translateMcpPropertiesToGeminiProperties(Field(mcpSchema, "properties"))
         IN  [type |-> SchemaType("OBJECT"),
              properties |-> IF IsDefined(geminiProperties) THEN geminiProperties ELSE <<>>,
              required |-> IF "required" \in DOMAIN mcpSchema
                           THEN mcpSchema.required ELSE <<>>]

\* Lines 95-113 with the required list cut down to the translated keys.
translateMcpSchemaToGeminiSchema_FiltersRequired(mcpSchema) ==
    IF IsBooleanSchema(mcpSchema)
    THEN Undefined
    ELSE IF Field(mcpSchema, "type") # Str("object")
    THEN EmptyObjectSchema
    ELSE LET geminiProperties ==
                 translateMcpPropertiesToGeminiProperties(Field(mcpSchema, "properties"))
             properties == IF IsDefined(geminiProperties) THEN geminiProperties ELSE <<>>
         IN  [type |-> SchemaType("OBJECT"),
              properties |-> properties,
              required |-> IF "required" \in DOMAIN mcpSchema
                           THEN SelectSeq(mcpSchema.required,
                                          LAMBDA key : key \in DOMAIN properties)
                           ELSE <<>>]

\* Lines 95-113.
translateMcpSchemaToGeminiSchema(mcpSchema) ==
    IF IsBooleanSchema(mcpSchema)
    THEN Undefined
    ELSE IF Field(mcpSchema, "type") # Str("object")
    THEN EmptyObjectSchema
    ELSE LET geminiProperties ==
                 translateMcpPropertiesToGeminiProperties(Field(mcpSchema, "properties"))
         IN  [type |-> SchemaType("OBJECT"),
              properties |-> IF IsDefined(geminiProperties) THEN geminiProperties ELSE <<>>,
              required |-> IF "required" \in DOMAIN mcpSchema
                           THEN mcpSchema.required ELSE <<>>]

\* Lines 115-132 without the checks: no tool is skipped.
SkipsTool_NoGate(mcpTool) == FALSE

\* Lines 115-132: the tool is skipped.
SkipsTool(mcpTool) ==
    \/ "inputSchema" \notin DOMAIN mcpTool
    \/ IsBooleanSchema(mcpTool.inputSchema)
    \/ Field(mcpTool.inputSchema, "type") # Str("object")

\* Lines 115-152; null is Undefined.
mcpToolToGeminiFunction(mcpTool, mcpServerName) ==
    IF SkipsTool(mcpTool)
    THEN Undefined
    ELSE LET geminiParameters ==
                 translateMcpSchemaToGeminiSchema(Field(mcpTool, "inputSchema"))
         IN  IF ~IsDefined(geminiParameters)
             THEN Undefined
             ELSE [name |-> GeminiFunctionName(mcpServerName, mcpTool.name),
                   description |->
                       IF "description" \in DOMAIN mcpTool /\ mcpTool.description # ""
                       THEN <<mcpTool.description>>
                       ELSE <<"Calls ", mcpTool.name, " on MCP server ",
                              mcpServerName, ". ", "">>,
                   parameters |-> geminiParameters]


(***************************************************************************)
(* The world outside the program: the configured servers (configService's  *)
(* McpServerConfig, URLs accepted by addServer), the tools each server     *)
(* reports, and what the model and the transports may answer.              *)
(***************************************************************************)

Server1 == [name |-> <<"a">>, url |-> "http://s1/mcp"]

Server2 == [name |-> <<"a", ".", "b">>, url |-> "http://s2/mcp"]

Server3 == [name |-> <<"a", "_", "b">>, url |-> "http://s3/mcp"]

\* The server lists a discovery pass may be given.
ServerLists == {<<Server1, Server2, Server3>>, <<>>}

AddSchema ==
    [type |-> Str("object"),
     properties |-> [a |-> [type |-> Str("number")],
                     b |-> [type |-> Str("number"), description |-> Str("addend")]],
     required |-> <<"a", "b">>]

\* What tools/list of the server at url reports when it reports its tools.
ToolsOf(url) ==
    CASE url = Server1.url ->
            << [name |-> <<"b", "_", "c">>, inputSchema |-> AddSchema],
               [name |-> <<"x">>],
               [name |-> <<"y">>, inputSchema |-> [boolean |-> FALSE]] >>
      [] url = Server2.url ->
            << [name |-> <<"d">>, inputSchema |-> [boolean |-> TRUE]],
               [name |-> <<"c", "-", "d">>, description |-> "adds",
                inputSchema |-> AddSchema] >>
      [] url = Server3.url ->
            << [name |-> <<"e">>, inputSchema |-> [type |-> Str("string")]],
               [name |-> <<"f">>,
                inputSchema |-> [type |-> Arr(<<Str("object"), Str("null")>>)]],
               [name |-> <<"g">>, inputSchema |-> [description |-> Str("untyped")]],
               [name |-> <<"c">>, inputSchema |-> [type |-> Str("object")]] >>
      [] OTHER -> <<>>

\* The answers of client.listTools(): the server's tools, or no tools.
Listings(url) == {ToolsOf(url), <<>>}

\* A function name the model asks for that no server provides.
UnknownName == <<"n", "o">>

ArgValues == {[a |-> 2, b |-> 3], [a |-> 0, b |-> 0]}

\* The most function calls one model response requests.
MaxCalls == 2

\* What client.callTool() resolves to: a result, or a result flagged isError.
ToolResults == {[content |-> <<"5">>], [content |-> <<"overflow">>, isError |-> TRUE]}

\* The message of a rejected transport request.
TransportErrors == {"fetch failed"}

\* Date.now() when a tool call is rejected.
Times == {1700}

Texts == {"It is 5."}

UserInputs == {"add 2 and 3"}

\* Line 97.
maxAttempts == 5

\* Character strings fed to the name derivation on its own: a short prefix
\* followed by a run of one character.
NameAlphabet == {"a", "Z", "7", "_", ".", "-"}

MaxPrefix == 1

RunLengths == {0, 30, 31, 32, 61, 62, 63}

Run(n) == [i \in 1..n |-> "k"]

Prefixes == UNION {[1..n -> NameAlphabet] : n \in 0..MaxPrefix}

NameInputs == {p \o Run(n) : p \in Prefixes, n \in RunLengths}

\* Property schemas that hold no schema of their own, but for `items`.
LeafSchemas ==
    {[boolean |-> TRUE],
     [type |-> Str("string")],
     [type |-> Str("string"), description |-> Str("d"),
      enum |-> Arr(<<Str("a"), [num |-> 1]>>)],
     [type |-> Str("number"), enum |-> Arr(<<[num |-> 1], [num |-> 2]>>)],
     [type |-> Arr(<<Str("string"), Str("null")>>),
      enum |-> Arr(<<[bool |-> TRUE], JsNull>>)],
     [type |-> Str("string"), enum |-> Str("a")],
     [type |-> Str("boolean"), enum |-> Arr(<<[bool |-> TRUE]>>)],
     [type |-> Str("integer")],
     [type |-> Str("boolean")],
     [type |-> Str("null")],
     [type |-> Str("any")],
     [description |-> Str("untyped")],
     [type |-> Arr(<<Str("null"), Str("string")>>)],
     [type |-> Arr(<<Str("string"), Str("null")>>)],
     [type |-> Arr(<<JsNull, Str("integer")>>)],
     [type |-> Arr(<<Str("null")>>)],
     [type |-> Str("array")],
     [type |-> Str("array"), items |-> [type |-> Str("string")]],
     [type |-> Str("array"), items |-> [type |-> Str("integer"), description |-> Str("d")]],
     [type |-> Str("array"),
      items |-> [type |-> Str("array"), items |-> [type |-> Str("string")]]],
     [type |-> Str("array"), items |-> [description |-> Str("untyped")]],
     [type |-> Str("array"), items |-> [type |-> Str("object"), required |-> <<"k">>]],
     [type |-> Str("array"), items |-> Arr(<<[type |-> Str("string")]>>)],
     [type |-> Str("array"), items |-> [boolean |-> TRUE]],
     [type |-> Str("array"), items |-> Str("string")],
     [type |-> Str("object")],
     [type |-> Str("object"), required |-> <<"k">>],
     [type |-> Arr(<<Str("object"), Str("null")>>),
      properties |-> [k |-> [type |-> Str("string")]]]}

\* The deepest nesting of object schemas inside a property.
MaxDepth == 1

\* The property schemas of nesting depth up to d.
RECURSIVE PropSchemas(_)
PropSchemas(d) ==
    IF d = 0
    THEN LeafSchemas
    ELSE LeafSchemas
            \cup {[type |-> Str("object"),
                   properties |-> [k |-> x, z |-> [boolean |-> FALSE]],
                   required |-> <<"k", "z">>] : x \in PropSchemas(d - 1)}
            \cup {[type |-> Str("array"),
                   items |-> [type |-> Str("object"), properties |-> [k |-> x]]] :
                        x \in PropSchemas(d - 1)}

\* The schemas given to translateMcpSchemaToGeminiSchema on its own.
SchemaInputs ==
    {[type |-> Str("object"), properties |-> [p |-> x, q |-> y]] :
        x \in PropSchemas(MaxDepth), y \in LeafSchemas}
      \cup {[type |-> Str("object"), properties |-> [p |-> x], required |-> <<"p", "gone">>] :
                x \in PropSchemas(MaxDepth)}
      \cup {[boolean |-> TRUE],
            [boolean |-> FALSE],
            [type |-> Str("object")],
            [type |-> Str("string")],
            [type |-> Str("array"), items |-> [type |-> Str("object")]],
            [type |-> Str("null")],
            [type |-> Arr(<<Str("object")>>), properties |-> [p |-> [type |-> Str("string")]]],
            [description |-> Str("untyped")],
            [properties |-> [p |-> [type |-> Str("string")]], required |-> <<"p">>]}

VARIABLES
    currentSessionTools,      \* mcpToolRegistry.ts line 28
    dpc,                      \* where discoverAndMapAllMcpTools is suspended
    configuredServers,        \* its argument
    di,                       \* the index of serverConfig in configuredServers
    outcome,                  \* what each server of the pass answered (observation)
    tableBefore,              \* the table when the pass was called (observation)
    clients,                  \* the GenericMcpClient objects of the running pass or round
    dynamicDeclarations,      \* geminiService.ts line 52
    tpc,                      \* where sendMessageToGemini is suspended
    attempt,                  \* geminiService.ts line 96
    modelCalls,               \* chatSession.sendMessage calls of the turn (observation)
    currentMessageForGemini,  \* line 94; Undefined once sendMessage has taken it
                              \* (it is not read again before line 161 assigns it)
    functionCalls,            \* line 111
    ci,                       \* the index of `call` in functionCalls
    mappedTool,               \* line 120
    toolResponses,            \* line 114
    wire,                     \* per requested call, what went over its transport (observation)
    result,                   \* the string sendMessageToGemini returned
    nameIn,                   \* a (server name, tool name) pair
    nameOut,                  \* the function name derived from nameIn
    client,                   \* a GenericMcpClient object used on its own
    cpc,                      \* the transport request its running method awaits
    callArgs,                 \* the arguments of its running method
    sent,                     \* the requests it gave its transport (observation)
    ret,                      \* how its last method ended (observation)
    schemaIn,                 \* an input schema
    schemaOut,                \* what the translator made of schemaIn
    config,                   \* configService.ts line 38: the stored configuration
    configCall                \* the last call on the store and the store before it
                              \* (observation)

discoveryVars == <<currentSessionTools, dpc, configuredServers, di, outcome,
                   tableBefore>>

turnVars == <<tpc, attempt, modelCalls, currentMessageForGemini, functionCalls,
              ci, mappedTool, toolResponses, wire, result>>

nameVars == <<nameIn, nameOut>>

clientVars == <<client, cpc, callArgs, sent, ret>>

schemaVars == <<schemaIn, schemaOut>>

configVars == <<config, configCall>>

\* The variables of the parts that are run on their own.
unitVars == <<nameVars, clientVars, schemaVars, configVars>>

\* The variables of the chat session.
sessionVars == <<discoveryVars, clients, dynamicDeclarations, turnVars>>

\* What the discovery pass and the turn leave alone.
asideVars == <<dynamicDeclarations, unitVars>>

vars == <<sessionVars, unitVars>>

(***************************************************************************)
(* mcpClientService.ts: GenericMcpClient.  Each method is suspended once,  *)
(* on its transport request; the operators give the object after it.       *)
(***************************************************************************)

\* Lines 29-35, with the call or server the object was created for.
NewClient(serverUrlString, madeFor) ==
    [serverUrl |-> serverUrlString, connected |-> FALSE, madeFor |-> madeFor]

\* Lines 37-47 with the flag set whatever the transport answers.
AfterConnect_AlwaysConnected(c, ok) == [c EXCEPT !.connected = TRUE]

\* Lines 37-47: after client.connect(transport) resolved (ok) or rejected.
AfterConnect(c, ok) == [c EXCEPT !.connected = ok]

\* Lines 49-59 without the finally: the flag is cleared after the await.
AfterDisconnect_KeepsOnError(c, ok) == [c EXCEPT !.connected = ~ok]

\* Lines 49-59: after client.close() resolved or rejected.
AfterDisconnect(c, ok) == [c EXCEPT !.connected = FALSE]

\* Lines 61-63.
isConnected(c) == c.connected

\* Lines 70-84: what callMcpTool returns on a connected client; reply is
\* [result |-> r] when client.callTool resolved, [message |-> m, now |-> t]
\* when it rejected.
callMcpToolReturn(mcpToolName, reply) ==
    IF "result" \in DOMAIN reply
    THEN reply.result
    ELSE [toolCallId |-> <<"error-", reply.now>>,
          isError |-> TRUE,
          content |-> << [type |-> "text",
                          text |-> <<"Error calling MCP tool ", mcpToolName,
                                     ": ", reply.message>>] >>]

CallReplies ==
    {[result |-> r] : r \in ToolResults}
        \cup {[message |-> m, now |-> t] : m \in TransportErrors, t \in Times}

\* Lines 98-103 answering a failed request with no tools.
listMcpToolsReturn_EmptyOnError(reply) ==
    IF "response" \in DOMAIN reply
    THEN Arr(IF "tools" \in DOMAIN reply.response THEN reply.response.tools ELSE <<>>)
    ELSE Arr(<<>>)

\* Lines 98-103: what listMcpTools returns on a connected client; reply is
\* [response |-> r] when client.listTools resolved, [message |-> m] when it
\* rejected.
listMcpToolsReturn(reply) ==
    IF "response" \in DOMAIN reply
    THEN Arr(IF "tools" \in DOMAIN reply.response THEN reply.response.tools ELSE <<>>)
    ELSE JsNull

\* The objects of a finished pass or round that are still connected.
StillConnected(cls) == SelectSeq(cls, isConnected)

\* The object most recently created (the `mcpClient` in scope).
mcpClient == clients[Len(clients)]

SetClient(cls, c) == [cls EXCEPT ![Len(cls)] = c]


(***************************************************************************)
(* mcpClientService.ts: the methods of one GenericMcpClient object, called *)
(* one after the other (every caller awaits each call).  ret records the   *)
(* method last called: the connected flag and the number of requests sent  *)
(* when it was called, the transport's reply, and how the method ended.    *)
(***************************************************************************)

\* The most requests the object gives its transport.
MaxRequests == 3

\* What a transport request that carries no result settles with.
TransportReplies == {[resolved |-> TRUE]} \cup {[message |-> m] : m \in TransportErrors}

\* What client.listTools() settles with.
ListReplies ==
    {[response |-> [tools |-> ToolsOf(Server1.url)]],
     [response |-> [tools |-> <<>>]],
     [response |-> [nextCursor |-> "c"]]}
        \cup {[message |-> m] : m \in TransportErrors}

ToolNames == {<<"b", "_", "c">>, <<"x">>}

Called(method) ==
    [method |-> method, before |-> isConnected(client), sentBefore |-> Len(sent),
     kind |-> "pending"]

Returned(r, value) == Assign(r, [kind |-> "returned", value |-> value])

Raised(r, error) == Assign(r, [kind |-> "raised", value |-> error])

\* Lines 37-40.
connect ==
    /\ cpc = "idle"
    /\ Len(sent) < MaxRequests
    /\ IF isConnected(client)
       THEN /\ ret' = Returned(Called("connect"), Undefined)
            /\ UNCHANGED <<cpc, sent>>
       ELSE /\ ret' = Called("connect")
            /\ cpc' = "connect"
            /\ sent' = Append(sent, [request |-> "connect"])
    /\ UNCHANGED <<client, callArgs>>
    /\ UNCHANGED <<sessionVars, nameVars, schemaVars, configVars>>

\* Lines 40-46: client.connect(transport) settled.
connectSettled(reply) ==
    /\ cpc = "connect"
    /\ cpc' = "idle"
    /\ client' = AfterConnect(client, "resolved" \in DOMAIN reply)
    /\ ret' = IF "resolved" \in DOMAIN reply
              THEN Returned(Assign(ret, [reply |-> reply]), Undefined)
              ELSE Raised(Assign(ret, [reply |-> reply]), reply)
    /\ UNCHANGED <<callArgs, sent>>
    /\ UNCHANGED <<sessionVars, nameVars, schemaVars, configVars>>

\* Lines 49-53.
disconnect ==
    /\ cpc = "idle"
    /\ Len(sent) < MaxRequests
    /\ IF ~isConnected(client)
       THEN /\ ret' = Returned(Called("disconnect"), Undefined)
            /\ UNCHANGED <<cpc, sent>>
       ELSE /\ ret' = Called("disconnect")
            /\ cpc' = "close"
            /\ sent' = Append(sent, [request |-> "close"])
    /\ UNCHANGED <<client, callArgs>>
    /\ UNCHANGED <<sessionVars, nameVars, schemaVars, configVars>>

\* Lines 53-58: client.close() settled.
closeSettled(reply) ==
    /\ cpc = "close"
    /\ cpc' = "idle"
    /\ client' = AfterDisconnect(client, "resolved" \in DOMAIN reply)
    /\ ret' = Returned(Assign(ret, [reply |-> reply]), Undefined)
    /\ UNCHANGED <<callArgs, sent>>
    /\ UNCHANGED <<sessionVars, nameVars, schemaVars, configVars>>

\* Lines 65-76 without lines 66-68.
callMcpTool_NoCheck(mcpToolName, mcpArguments) ==
    /\ cpc = "idle"
    /\ Len(sent) < MaxRequests
    /\ ret' = Called("callMcpTool")
    /\ cpc' = "callTool"
    /\ callArgs' = [name |-> mcpToolName, arguments |-> mcpArguments]
    /\ sent' = Append(sent, [request |-> "callTool", name |-> mcpToolName,
                             arguments |-> mcpArguments])
    /\ UNCHANGED client
    /\ UNCHANGED <<sessionVars, nameVars, schemaVars, configVars>>

\* Lines 65-76.
callMcpTool(mcpToolName, mcpArguments) ==
    /\ cpc = "idle"
    /\ Len(sent) < MaxRequests
    /\ IF ~isConnected(client)
       THEN /\ ret' = Raised(Called("callMcpTool"),
                             [message |-> "Not connected to MCP server. Cannot call tool."])
            /\ UNCHANGED <<cpc, callArgs, sent>>
       ELSE /\ ret' = Called("callMcpTool")
            /\ cpc' = "callTool"
            /\ callArgs' = [name |-> mcpToolName, arguments |-> mcpArguments]
            /\ sent' = Append(sent, [request |-> "callTool", name |-> mcpToolName,
                                     arguments |-> mcpArguments])
    /\ UNCHANGED client
    /\ UNCHANGED <<sessionVars, nameVars, schemaVars, configVars>>

\* Lines 73-84 with the catch clearing the connected flag.
callToolSettled_DropsOnError(reply) ==
    /\ cpc = "callTool"
    /\ cpc' = "idle"
    /\ ret' = Returned(Assign(ret, [reply |-> reply]),
                       callMcpToolReturn(callArgs.name, reply))
    /\ callArgs' = Undefined
    /\ client' = IF "message" \in DOMAIN reply
                 THEN [client EXCEPT !.connected = FALSE]
                 ELSE client
    /\ UNCHANGED sent
    /\ UNCHANGED <<sessionVars, nameVars, schemaVars, configVars>>

\* Lines 73-84: client.callTool() settled.
callToolSettled(reply) ==
    /\ cpc = "callTool"
    /\ cpc' = "idle"
    /\ ret' = Returned(Assign(ret, [reply |-> reply]),
                       callMcpToolReturn(callArgs.name, reply))
    /\ callArgs' = Undefined
    /\ UNCHANGED <<client, sent>>
    /\ UNCHANGED <<sessionVars, nameVars, schemaVars, configVars>>

\* Lines 91-98.
listMcpTools ==
    /\ cpc = "idle"
    /\ Len(sent) < MaxRequests
    /\ IF ~isConnected(client)
       THEN /\ ret' = Returned(Called("listMcpTools"), JsNull)
            /\ UNCHANGED <<cpc, sent>>
       ELSE /\ ret' = Called("listMcpTools")
            /\ cpc' = "listTools"
            /\ sent' = Append(sent, [request |-> "listTools"])
    /\ UNCHANGED <<client, callArgs>>
    /\ UNCHANGED <<sessionVars, nameVars, schemaVars, configVars>>

\* Lines 98-103: client.listTools() settled.
listToolsSettled(reply) ==
    /\ cpc = "listTools"
    /\ cpc' = "idle"
    /\ ret' = Returned(Assign(ret, [reply |-> reply]), listMcpToolsReturn(reply))
    /\ UNCHANGED <<client, callArgs, sent>>
    /\ UNCHANGED <<sessionVars, nameVars, schemaVars, configVars>>

(***************************************************************************)
(* mcpToolRegistry.ts: the table and the discovery pass.                   *)
(***************************************************************************)

\* Lines 197-199 leaving out the first entry.
getDynamicallyGeneratedGeminiFunctionDeclarations_DropsFirst ==
    [i \in 1..(Len(currentSessionTools) - 1) |->
        currentSessionTools[i + 1].geminiFunctionDeclaration]

\* Lines 197-199.
getDynamicallyGeneratedGeminiFunctionDeclarations ==
    [i \in 1..Len(currentSessionTools) |->
        currentSessionTools[i].geminiFunctionDeclaration]

\* The greatest element of a non-empty set of numbers.
Greatest(S) == CHOOSE i \in S : \A j \in S : i >= j

\* Lines 201-203 with findLast for find.
findDynamicallyMappedTool_Last(geminiFunctionName) ==
    LET hits == {i \in 1..Len(currentSessionTools) :
                    currentSessionTools[i].geminiFunctionDeclaration.name
                        = geminiFunctionName}
    IN  IF hits = {} THEN Undefined ELSE currentSessionTools[Greatest(hits)]

\* Lines 201-203: Array.prototype.find, the first match or undefined.
findDynamicallyMappedTool(geminiFunctionName) ==
    LET hits == {i \in 1..Len(currentSessionTools) :
                    currentSessionTools[i].geminiFunctionDeclaration.name
                        = geminiFunctionName}
    IN  IF hits = {} THEN Undefined ELSE currentSessionTools[Least(hits)]

\* Lines 171-176.
Mapping(geminiFuncDecl, serverConfig, mcpTool) ==
    [geminiFunctionDeclaration |-> geminiFuncDecl,
     mcpServerName |-> serverConfig.name,
     mcpServerUrl |-> serverConfig.url,
     mcpToolName |-> mcpTool.name]

\* Lines 167-181: the table after the tools of one listing were mapped.
RECURSIVE MapTools(_, _, _)
MapTools(table, mcpTools, serverConfig) ==
    IF mcpTools = <<>>
    THEN table
    ELSE LET geminiFuncDecl == mcpToolToGeminiFunction(Head(mcpTools), serverConfig.name)
         IN  MapTools(IF IsDefined(geminiFuncDecl)
                      THEN Append(table, Mapping(geminiFuncDecl, serverConfig, Head(mcpTools)))
                      ELSE table,
                      Tail(mcpTools), serverConfig)

\* No GenericMcpClient object is used on its own.
NoClient ==
    /\ client = Undefined
    /\ cpc = "idle"
    /\ callArgs = Undefined
    /\ sent = <<>>
    /\ ret = Undefined

\* No schema is translated on its own.
NoSchema ==
    /\ schemaIn = Undefined
    /\ schemaOut = Undefined

\* configService.ts lines 41-44: the store as it is first created.
ConfigDefaults == [servers |-> <<>>, defaultServerName |-> JsNull]

\* The store is new and nothing was called on it.
NoConfig ==
    /\ config = ConfigDefaults
    /\ configCall = Undefined

TurnIdle == tpc \in {"idle", "returned", "raised"}

\* No call of sendMessageToGemini is on the stack, and what the last one left
\* behind is forgotten.
NoTurn ==
    /\ tpc = "idle"
    /\ attempt = 0
    /\ modelCalls = 0
    /\ currentMessageForGemini = Undefined
    /\ functionCalls = <<>>
    /\ ci = 0
    /\ mappedTool = Undefined
    /\ toolResponses = <<>>
    /\ wire = <<>>
    /\ result = Undefined

\* The frame of the last sendMessageToGemini call is gone.
ForgetTurn ==
    /\ tpc' = "idle"
    /\ attempt' = 0
    /\ modelCalls' = 0
    /\ currentMessageForGemini' = Undefined
    /\ functionCalls' = <<>>
    /\ ci' = 0
    /\ mappedTool' = Undefined
    /\ toolResponses' = <<>>
    /\ wire' = <<>>
    /\ result' = Undefined

\* Lines 158-162: the loop moves on from server i: the next server's client
\* is created and its connect awaited, or the pass is over (line 194).
NextServer(servers, i, cls) ==
    IF i < Len(servers)
    THEN /\ dpc' = "connect"
         /\ di' = i + 1
         /\ clients' = Append(cls, NewClient(servers[i + 1].url,
                                             [op |-> "discovery", index |-> i + 1]))
    ELSE /\ dpc' = "done"
         /\ di' = i
         /\ clients' = cls

\* Lines 154-162 without line 156: the pass adds to the table it finds.
Discover_KeepsTable(servers) ==
    /\ dpc \in {"idle", "done"}
    /\ TurnIdle
    /\ currentSessionTools' = currentSessionTools
    /\ configuredServers' = servers
    /\ outcome' = <<>>
    /\ tableBefore' = [table |-> currentSessionTools]
    /\ NextServer(servers, 0, StillConnected(clients))
    /\ ForgetTurn
    /\ UNCHANGED asideVars

\* Lines 154-162: discoverAndMapAllMcpTools(servers) runs to its first await.
Discover(servers) ==
    /\ dpc \in {"idle", "done"}
    /\ TurnIdle
    /\ currentSessionTools' = <<>>
    /\ configuredServers' = servers
    /\ outcome' = <<>>
    /\ tableBefore' = [table |-> currentSessionTools]
    /\ NextServer(servers, 0, StillConnected(clients))
    /\ ForgetTurn
    /\ UNCHANGED asideVars

\* Lines 162-164: connect resolved; listMcpTools is called and awaited.
DiscoveryConnected ==
    /\ dpc = "connect"
    /\ clients' = SetClient(clients, AfterConnect(mcpClient, TRUE))
    /\ dpc' = "list"
    /\ UNCHANGED <<currentSessionTools, configuredServers, di, outcome, tableBefore>>
    /\ UNCHANGED <<turnVars, asideVars>>

\* Line 162 without the catch: the rejection ends the pass.
DiscoveryConnectFailed_Aborts ==
    /\ dpc = "connect"
    /\ outcome' = Append(outcome, [kind |-> "connectFailed"])
    /\ dpc' = "done"
    /\ clients' = SetClient(clients, AfterConnect(mcpClient, FALSE))
    /\ UNCHANGED <<currentSessionTools, configuredServers, di, tableBefore>>
    /\ UNCHANGED <<turnVars, asideVars>>

\* Lines 162, 186-193: connect rejected; the catch swallows it, the finally
\* finds the client unconnected, the loop moves on.
DiscoveryConnectFailed ==
    /\ dpc = "connect"
    /\ outcome' = Append(outcome, [kind |-> "connectFailed"])
    /\ NextServer(configuredServers, di,
                  SetClient(clients, AfterConnect(mcpClient, FALSE)))
    /\ UNCHANGED <<currentSessionTools, configuredServers, tableBefore>>
    /\ UNCHANGED <<turnVars, asideVars>>

\* Lines 164-181, 188-190: listMcpTools returned the tools; they are mapped,
\* and the finally awaits disconnect.
DiscoveryListed ==
    /\ dpc = "list"
    /\ \E mcpTools \in Listings(mcpClient.serverUrl) :
          /\ currentSessionTools' =
                MapTools(currentSessionTools, mcpTools, configuredServers[di])
          /\ outcome' = Append(outcome, [kind |-> "listed", tools |-> mcpTools])
    /\ dpc' = "disconnect"
    /\ UNCHANGED <<configuredServers, di, clients, tableBefore>>
    /\ UNCHANGED <<turnVars, asideVars>>

\* Lines 182-184 without the finally: the loop moves on at once.
DiscoveryListFailed_NoFinally ==
    /\ dpc = "list"
    /\ outcome' = Append(outcome, [kind |-> "listFailed"])
    /\ NextServer(configuredServers, di, clients)
    /\ UNCHANGED <<currentSessionTools, configuredServers, tableBefore>>
    /\ UNCHANGED <<turnVars, asideVars>>

\* Lines 164, 182-184, 188-190: listMcpTools returned null (the request
\* failed); nothing is mapped, and the finally awaits disconnect.
DiscoveryListFailed ==
    /\ dpc = "list"
    /\ outcome' = Append(outcome, [kind |-> "listFailed"])
    /\ dpc' = "disconnect"
    /\ UNCHANGED <<currentSessionTools, configuredServers, di, clients, tableBefore>>
    /\ UNCHANGED <<turnVars, asideVars>>

\* Lines 189-193: disconnect returned (close resolved or rejected).
DiscoveryDisconnected(closeOk) ==
    /\ dpc = "disconnect"
    /\ NextServer(configuredServers, di,
                  SetClient(clients, AfterDisconnect(mcpClient, closeOk)))
    /\ UNCHANGED <<currentSessionTools, configuredServers, outcome, tableBefore>>
    /\ UNCHANGED <<turnVars, asideVars>>


(***************************************************************************)
(* geminiService.ts: sendMessageToGemini, one user turn.                   *)
(***************************************************************************)

NoResponseText == "I'm sorry, I couldn't get a response."

EmptyResponseText == "I received a response, but it was empty."

ExhaustedText ==
    "I tried several times, but I'm having trouble completing your request with tools."

\* Lines 123-128.
NotMappedResponse(call) ==
    [functionResponse |->
        [name |-> call.name,
         response |-> [error |-> <<"Function ", call.name,
                                   " is not implemented or mapped.">>]]]

\* Lines 140-145.
ToolResponse(call, mcpToolResult) ==
    [functionResponse |-> [name |-> call.name, response |-> mcpToolResult]]

\* Lines 149-154 answering under the tool's name, not the call's.
ExecutionErrorResponse_ToolName(call, tool, message) ==
    [functionResponse |->
        [name |-> tool.mcpToolName,
         response |-> [error |-> <<"Error executing MCP tool ", tool.mcpToolName,
                                   ": ", message>>]]]

\* Lines 149-154.
ExecutionErrorResponse(call, tool, message) ==
    [functionResponse |->
        [name |-> call.name,
         response |-> [error |-> <<"Error executing MCP tool ", tool.mcpToolName,
                                   ": ", message>>]]]

\* Lines 116-130 with `break` for `continue`, and no answer for the call.
SkipUnmapped_Break(calls, i, responses, seen) ==
    IF i > Len(calls) \/ IsDefined(findDynamicallyMappedTool(calls[i].name))
    THEN [ci |-> i, toolResponses |-> responses, wire |-> seen]
    ELSE [ci |-> Len(calls) + 1, toolResponses |-> responses, wire |-> seen]

\* Lines 116-130: the for loop runs from the i-th call over the calls whose
\* name is not mapped, up to the first call that is (or past the last call).
RECURSIVE SkipUnmapped(_, _, _, _)
SkipUnmapped(calls, i, responses, seen) ==
    IF i > Len(calls) \/ IsDefined(findDynamicallyMappedTool(calls[i].name))
    THEN [ci |-> i, toolResponses |-> responses, wire |-> seen]
    ELSE SkipUnmapped(calls, i + 1,
                      Append(responses, NotMappedResponse(calls[i])),
                      Append(seen, [kind |-> "unmapped"]))

\* Lines 99-103 with the bound tested as attempt <= maxAttempts.
NextRound_OneMore ==
    /\ tpc = "while"
    /\ IF attempt <= maxAttempts
       THEN /\ attempt' = attempt + 1
            /\ modelCalls' = modelCalls + 1
            /\ tpc' = "sendMessage"
            /\ currentMessageForGemini' = Undefined
            /\ functionCalls' = <<>>
            /\ ci' = 0
            /\ toolResponses' = <<>>
            /\ wire' = <<>>
            /\ clients' = StillConnected(clients)
            /\ UNCHANGED result
       ELSE /\ tpc' = "returned"
            /\ result' = [text |-> ExhaustedText]
            /\ UNCHANGED <<attempt, modelCalls, currentMessageForGemini,
                           functionCalls, ci, toolResponses, wire, clients>>
    /\ UNCHANGED mappedTool
    /\ UNCHANGED <<discoveryVars, asideVars>>

\* Lines 99-103, 174-175: the while test.  Another round starts: the last
\* round's functionCalls and toolResponses are out of scope and sendMessage
\* is given the message; or, the rounds used up, the fallback is returned.
NextRound ==
    /\ tpc = "while"
    /\ IF attempt < maxAttempts
       THEN /\ attempt' = attempt + 1
            /\ modelCalls' = modelCalls + 1
            /\ tpc' = "sendMessage"
            /\ currentMessageForGemini' = Undefined
            /\ functionCalls' = <<>>
            /\ ci' = 0
            /\ toolResponses' = <<>>
            /\ wire' = <<>>
            /\ clients' = StillConnected(clients)
            /\ UNCHANGED result
       ELSE /\ tpc' = "returned"
            /\ result' = [text |-> ExhaustedText]
            /\ UNCHANGED <<attempt, modelCalls, currentMessageForGemini,
                           functionCalls, ci, toolResponses, wire, clients>>
    /\ UNCHANGED mappedTool
    /\ UNCHANGED <<discoveryVars, asideVars>>

\* Lines 116-134 and 161: the for loop goes on from the i-th call to the next
\* await, the connect of the next mapped call's client, or, the calls done,
\* to line 161 and the while test.
Proceed(calls, i, responses, seen, cls) ==
    LET r == SkipUnmapped(calls, i, responses, seen)
    IN  /\ functionCalls' = calls
        /\ ci' = r.ci
        /\ toolResponses' = r.toolResponses
        /\ wire' = r.wire
        /\ IF r.ci <= Len(calls)
           THEN /\ mappedTool' = findDynamicallyMappedTool(calls[r.ci].name)
                /\ clients' = Append(cls, NewClient(mappedTool'.mcpServerUrl,
                                                    [op |-> "call", index |-> r.ci]))
                /\ tpc' = "connect"
                /\ currentMessageForGemini' = Undefined
                /\ UNCHANGED <<attempt, modelCalls, result>>
           ELSE /\ mappedTool' = Undefined
                /\ clients' = cls
                /\ tpc' = "while"
                /\ currentMessageForGemini' = r.toolResponses
                /\ UNCHANGED <<attempt, modelCalls, result>>

\* geminiService.ts lines 51-73: initializeGeminiModelWithDiscoveredTools()
\* takes the declarations (line 52) to make the model with them; index.ts
\* calls it after a discovery pass (line 79).
initializeGeminiModelWithDiscoveredTools ==
    /\ dpc = "done"
    /\ TurnIdle
    /\ dynamicDeclarations' =
          [declarations |-> getDynamicallyGeneratedGeminiFunctionDeclarations]
    /\ UNCHANGED <<discoveryVars, clients, turnVars, unitVars>>

\* Lines 88-97: sendMessageToGemini(chatSession, userInput) up to the while
\* test.
SendMessageToGemini(userInput) ==
    /\ TurnIdle
    /\ dpc = "done"
    /\ tpc' = "while"
    /\ attempt' = 0
    /\ modelCalls' = 0
    /\ currentMessageForGemini' = [text |-> userInput]
    /\ functionCalls' = <<>>
    /\ ci' = 0
    /\ mappedTool' = Undefined
    /\ toolResponses' = <<>>
    /\ wire' = <<>>
    /\ result' = Undefined
    /\ clients' = StillConnected(clients)
    /\ outcome' = <<>>
    /\ tableBefore' = Undefined
    /\ UNCHANGED <<currentSessionTools, dpc, configuredServers, di>>
    /\ UNCHANGED asideVars

\* Line 103: sendMessage rejected; nothing catches it.
ModelCallFails ==
    /\ tpc = "sendMessage"
    /\ tpc' = "raised"
    /\ currentMessageForGemini' = Undefined
    /\ UNCHANGED <<attempt, modelCalls, functionCalls, ci, mappedTool,
                   toolResponses, wire, result>>
    /\ UNCHANGED <<discoveryVars, clients, asideVars>>

\* Lines 106-109.
ModelGivesNoResponse ==
    /\ tpc = "sendMessage"
    /\ tpc' = "returned"
    /\ result' = [text |-> NoResponseText]
    /\ currentMessageForGemini' = Undefined
    /\ functionCalls' = <<>>
    /\ toolResponses' = <<>>
    /\ wire' = <<>>
    /\ clients' = StillConnected(clients)
    /\ UNCHANGED <<attempt, modelCalls, ci, mappedTool>>
    /\ UNCHANGED <<discoveryVars, asideVars>>

\* Lines 163-172 without the return: the text is taken for a round's result.
ModelAnswers_GoesOn(text) ==
    /\ tpc = "sendMessage"
    /\ functionCalls' = <<>>
    /\ toolResponses' = <<>>
    /\ wire' = <<>>
    /\ clients' = StillConnected(clients)
    /\ tpc' = "while"
    /\ currentMessageForGemini' = <<>>
    /\ UNCHANGED <<attempt, modelCalls, result, ci, mappedTool>>
    /\ UNCHANGED <<discoveryVars, asideVars>>

\* Lines 111-112, 163-172: the response requests no function call; text is
\* response.text(), Undefined when there is none.
ModelAnswers(text) ==
    /\ tpc = "sendMessage"
    /\ tpc' = "returned"
    /\ result' = IF IsDefined(text) THEN text ELSE [text |-> EmptyResponseText]
    /\ currentMessageForGemini' = Undefined
    /\ functionCalls' = <<>>
    /\ toolResponses' = <<>>
    /\ wire' = <<>>
    /\ clients' = StillConnected(clients)
    /\ UNCHANGED <<attempt, modelCalls, ci, mappedTool>>
    /\ UNCHANGED <<discoveryVars, asideVars>>

\* Lines 111-134 with the rounds tested before the for loop: the calls of the
\* last permitted response are not executed.
ModelRequestsCalls_SkipsLastRound(calls) ==
    /\ tpc = "sendMessage"
    /\ IF attempt < maxAttempts
       THEN Proceed(calls, 1, <<>>, <<>>, StillConnected(clients))
       ELSE /\ functionCalls' = calls
            /\ ci' = 0
            /\ toolResponses' = <<>>
            /\ wire' = <<>>
            /\ mappedTool' = Undefined
            /\ clients' = StillConnected(clients)
            /\ currentMessageForGemini' = Undefined
            /\ tpc' = "returned"
            /\ result' = [text |-> ExhaustedText]
            /\ UNCHANGED <<attempt, modelCalls>>
    /\ UNCHANGED <<discoveryVars, asideVars>>

\* Lines 111-134: the response requests calls; the for loop starts.
ModelRequestsCalls(calls) ==
    /\ tpc = "sendMessage"
    /\ Proceed(calls, 1, <<>>, <<>>, StillConnected(clients))
    /\ UNCHANGED <<discoveryVars, asideVars>>

\* Lines 134-138 calling the tool by the function name the model used.
ToolConnected_SendsFunctionName ==
    /\ tpc = "connect"
    /\ clients' = SetClient(clients, AfterConnect(mcpClient, TRUE))
    /\ wire' = Append(wire,
                  [kind |-> "called",
                   request |-> [serverUrl |-> mcpClient.serverUrl,
                                name |-> functionCalls[ci].name,
                                arguments |-> functionCalls[ci].args]])
    /\ tpc' = "callTool"
    /\ UNCHANGED <<attempt, modelCalls, currentMessageForGemini, functionCalls,
                   ci, mappedTool, toolResponses, result>>
    /\ UNCHANGED <<discoveryVars, asideVars>>

\* Lines 134-138: connect resolved; callMcpTool finds the client connected
\* and sends the request, which is awaited.
ToolConnected ==
    /\ tpc = "connect"
    /\ clients' = SetClient(clients, AfterConnect(mcpClient, TRUE))
    /\ wire' = Append(wire,
                  [kind |-> "called",
                   request |-> [serverUrl |-> mcpClient.serverUrl,
                                name |-> mappedTool.mcpToolName,
                                arguments |-> functionCalls[ci].args]])
    /\ tpc' = "callTool"
    /\ UNCHANGED <<attempt, modelCalls, currentMessageForGemini, functionCalls,
                   ci, mappedTool, toolResponses, result>>
    /\ UNCHANGED <<discoveryVars, asideVars>>

\* Lines 134, 147-160 with the for loop left after the catch: the calls that
\* follow are not executed.
ToolConnectFailed_EndsRound(message) ==
    /\ tpc = "connect"
    /\ Proceed(functionCalls, Len(functionCalls) + 1,
               Append(toolResponses,
                      ExecutionErrorResponse(functionCalls[ci], mappedTool, message)),
               Append(wire, [kind |-> "connectFailed"]),
               SetClient(clients, AfterConnect(mcpClient, FALSE)))
    /\ UNCHANGED <<discoveryVars, asideVars>>

\* Lines 134, 147-160: connect rejected; the catch answers for the call, the
\* finally finds the client unconnected, the for loop goes on.
ToolConnectFailed(message) ==
    /\ tpc = "connect"
    /\ Proceed(functionCalls, ci + 1,
               Append(toolResponses,
                      ExecutionErrorResponse(functionCalls[ci], mappedTool, message)),
               Append(wire, [kind |-> "connectFailed"]),
               SetClient(clients, AfterConnect(mcpClient, FALSE)))
    /\ UNCHANGED <<discoveryVars, asideVars>>

\* Lines 138-146 without the finally: the client is left as it is.
ToolCallReturned_NoFinally(reply) ==
    /\ tpc = "callTool"
    /\ Proceed(functionCalls, ci + 1,
               Append(toolResponses,
                      ToolResponse(functionCalls[ci],
                                   callMcpToolReturn(mappedTool.mcpToolName, reply))),
               [wire EXCEPT ![ci] = Assign(@, [reply |-> reply])],
               clients)
    /\ UNCHANGED <<discoveryVars, asideVars>>

\* Lines 138-146, 155-158: callMcpTool returned; its value answers for the
\* call, and the finally awaits disconnect.
ToolCallReturned(reply) ==
    /\ tpc = "callTool"
    /\ LET mcpToolResult == callMcpToolReturn(mappedTool.mcpToolName, reply)
       IN  /\ toolResponses' =
                 Append(toolResponses, ToolResponse(functionCalls[ci], mcpToolResult))
           /\ wire' = [wire EXCEPT ![ci] = Assign(@, [reply |-> reply])]
    /\ tpc' = "disconnect"
    /\ UNCHANGED <<attempt, modelCalls, currentMessageForGemini, functionCalls,
                   ci, mappedTool, result, clients>>
    /\ UNCHANGED <<discoveryVars, asideVars>>

\* Lines 157-160: disconnect returned; the for loop goes on.
ToolDisconnected(closeOk) ==
    /\ tpc = "disconnect"
    /\ Proceed(functionCalls, ci + 1, toolResponses, wire,
               SetClient(clients, AfterDisconnect(mcpClient, closeOk)))
    /\ UNCHANGED <<discoveryVars, asideVars>>

CallNames ==
    {currentSessionTools[i].geminiFunctionDeclaration.name :
        i \in 1..Len(currentSessionTools)} \cup {UnknownName}

Calls == [name : CallNames, args : ArgValues]

CallLists == UNION {[1..n -> Calls] : n \in 1..MaxCalls}

(***************************************************************************)
(* The session: discovery passes and user turns, one at a time.            *)
(***************************************************************************)

Init ==
    /\ currentSessionTools = <<>>
    /\ dpc = "idle"
    /\ configuredServers = <<>>
    /\ di = 0
    /\ outcome = <<>>
    /\ tableBefore = Undefined
    /\ clients = <<>>
    /\ dynamicDeclarations = Undefined
    /\ NoTurn
    /\ nameIn = Undefined
    /\ nameOut = Undefined
    /\ NoClient
    /\ NoSchema
    /\ NoConfig

DiscoveryNext ==
    \/ \E servers \in ServerLists : Discover(servers)
    \/ DiscoveryConnected
    \/ DiscoveryConnectFailed
    \/ DiscoveryListed
    \/ DiscoveryListFailed
    \/ \E closeOk \in BOOLEAN : DiscoveryDisconnected(closeOk)

TurnNext ==
    \/ \E userInput \in UserInputs : SendMessageToGemini(userInput)
    \/ NextRound
    \/ ModelCallFails
    \/ ModelGivesNoResponse
    \/ \E text \in {[text |-> t] : t \in Texts} \cup {Undefined} : ModelAnswers(text)
    \/ \E calls \in CallLists : ModelRequestsCalls(calls)
    \/ ToolConnected
    \/ \E message \in TransportErrors : ToolConnectFailed(message)
    \/ \E reply \in CallReplies : ToolCallReturned(reply)
    \/ \E closeOk \in BOOLEAN : ToolDisconnected(closeOk)

Next == DiscoveryNext \/ TurnNext

Spec == Init /\ [][Next]_vars

\* The session with the model made from the declarations (index.ts lines
\* 76-79).
NextSession == Next \/ initializeGeminiModelWithDiscoveredTools

SpecSession == Init /\ [][NextSession]_vars

\* What a started turn goes on with: its own next statement, and the
\* completions it waits for, the model's and the transports'.
TurnCompletes ==
    \/ NextRound
    \/ ModelCallFails
    \/ ModelGivesNoResponse
    \/ \E text \in {[text |-> t] : t \in Texts} \cup {Undefined} : ModelAnswers(text)
    \/ \E calls \in CallLists : ModelRequestsCalls(calls)
    \/ ToolConnected
    \/ \E message \in TransportErrors : ToolConnectFailed(message)
    \/ \E reply \in CallReplies : ToolCallReturned(reply)
    \/ \E closeOk \in BOOLEAN : ToolDisconnected(closeOk)

\* The session when every request the turn awaits is eventually settled.
FairSpec == Spec /\ WF_vars(TurnCompletes)

(***************************************************************************)
(* The name derivation on its own, over NameInputs.                        *)
(***************************************************************************)

InitName ==
    /\ currentSessionTools = <<>>
    /\ dpc = "idle"
    /\ configuredServers = <<>>
    /\ di = 0
    /\ outcome = <<>>
    /\ tableBefore = Undefined
    /\ clients = <<>>
    /\ dynamicDeclarations = Undefined
    /\ NoTurn
    /\ nameIn \in [server : NameInputs, tool : NameInputs]
    /\ nameOut = Undefined
    /\ NoClient
    /\ NoSchema
    /\ NoConfig

\* mcpToolToGeminiFunction on a tool of that name with an object schema.
DeriveName ==
    /\ nameOut = Undefined
    /\ nameOut' = mcpToolToGeminiFunction(
                      [name |-> nameIn.tool, inputSchema |-> [type |-> Str("object")]],
                      nameIn.server)
    /\ UNCHANGED <<sessionVars, nameIn, clientVars, schemaVars,
                   configVars>>

NextName == DeriveName

SpecName == InitName /\ [][NextName]_vars

(***************************************************************************)
(* The schema translation on its own, over SchemaInputs.                   *)
(***************************************************************************)

InitSchema ==
    /\ currentSessionTools = <<>>
    /\ dpc = "idle"
    /\ configuredServers = <<>>
    /\ di = 0
    /\ outcome = <<>>
    /\ tableBefore = Undefined
    /\ clients = <<>>
    /\ dynamicDeclarations = Undefined
    /\ NoTurn
    /\ nameIn = Undefined
    /\ nameOut = Undefined
    /\ NoClient
    /\ schemaIn \in SchemaInputs
    /\ schemaOut = Undefined
    /\ NoConfig

\* translateMcpSchemaToGeminiSchema(schemaIn) is called and returns.
TranslateSchema ==
    /\ schemaOut = Undefined
    /\ schemaOut' = [schema |-> translateMcpSchemaToGeminiSchema(schemaIn)]
    /\ UNCHANGED <<sessionVars, nameVars, clientVars, schemaIn,
                   configVars>>

NextSchema == TranslateSchema

SpecSchema == InitSchema /\ [][NextSchema]_vars

(***************************************************************************)
(* The configuration store (configService.ts) on its own.                  *)
(***************************************************************************)

\* The names given to the servers commands.
ConfigNames == {Server1.name, Server2.name, Server3.name}

\* The URLs given to `servers add`, taken apart at the scheme's colon.
ConfigUrls ==
    {<<"http", ":", "//s1/mcp">>, <<"http", ":", "//s2/mcp">>,
     <<"s3/mcp">>, <<":", "//s3/mcp">>, <<>>}

\* new URL(url) of line 55 throws: the text does not start with a scheme.
URLThrows(url) == ~(Len(url) >= 2 /\ url[1] \notin {"", ":"} /\ url[2] = ":")

\* servers.some(s => s.name === name)
SomeNamed(servers, name) == \E i \in DOMAIN servers : servers[i].name = name

\* servers.filter(s => s.name !== name)
RECURSIVE FilterNamed(_, _)
FilterNamed(servers, name) ==
    IF servers = <<>>
    THEN <<>>
    ELSE IF servers[1].name = name
    THEN FilterNamed(Tail(servers), name)
    ELSE <<servers[1]>> \o FilterNamed(Tail(servers), name)

\* Lines 100-108 on a store: the store they leave.
setDefaultServerOn(store, name) ==
    IF ~SomeNamed(store.servers, name)
    THEN store
    ELSE [store EXCEPT !.defaultServerName = Str(name)]

\* Lines 68-72.
listServers ==
    [i \in DOMAIN config.servers |->
        [name |-> config.servers[i].name,
         url |-> config.servers[i].url,
         default |-> Str(config.servers[i].name) = config.defaultServerName]]

\* Lines 48-66 with no check of the name at lines 50-53.
addServer_NoNameCheck(name, url) ==
    /\ configCall' = [operation |-> "addServer", name |-> name, url |-> url,
                      before |-> config]
    /\ IF URLThrows(url)
       THEN UNCHANGED config
       ELSE LET servers == Append(config.servers, [name |-> name, url |-> url])
                stored == [config EXCEPT !.servers = servers]
            IN  config' = IF Len(servers) = 1
                          THEN setDefaultServerOn(stored, name)
                          ELSE stored
    /\ UNCHANGED <<sessionVars, nameVars, clientVars, schemaVars>>

\* Lines 48-66 without lines 63-65.
addServer_NoDefault(name, url) ==
    /\ configCall' = [operation |-> "addServer", name |-> name, url |-> url,
                      before |-> config]
    /\ IF SomeNamed(config.servers, name) \/ URLThrows(url)
       THEN UNCHANGED config
       ELSE config' = [config EXCEPT
                          !.servers = Append(config.servers, [name |-> name, url |-> url])]
    /\ UNCHANGED <<sessionVars, nameVars, clientVars, schemaVars>>

\* Lines 48-66.
addServer(name, url) ==
    /\ configCall' = [operation |-> "addServer", name |-> name, url |-> url,
                      before |-> config]
    /\ IF SomeNamed(config.servers, name) \/ URLThrows(url)
       THEN UNCHANGED config
       ELSE LET servers == Append(config.servers, [name |-> name, url |-> url])
                stored == [config EXCEPT !.servers = servers]
            IN  config' = IF Len(servers) = 1
                          THEN setDefaultServerOn(stored, name)
                          ELSE stored
    /\ UNCHANGED <<sessionVars, nameVars, clientVars, schemaVars>>

\* Lines 79-98 without lines 90-97.
removeServer_KeepsDefault(name) ==
    /\ configCall' = [operation |-> "removeServer", name |-> name, before |-> config]
    /\ IF ~SomeNamed(config.servers, name)
       THEN UNCHANGED config
       ELSE config' = [config EXCEPT !.servers = FilterNamed(config.servers, name)]
    /\ UNCHANGED <<sessionVars, nameVars, clientVars, schemaVars>>

\* Lines 79-98.
removeServer(name) ==
    /\ configCall' = [operation |-> "removeServer", name |-> name, before |-> config]
    /\ IF ~SomeNamed(config.servers, name)
       THEN UNCHANGED config
       ELSE LET servers == FilterNamed(config.servers, name)
            IN  config' =
                    [servers |-> servers,
                     defaultServerName |->
                        IF config.defaultServerName = Str(name)
                        THEN IF Len(servers) > 0 THEN Str(servers[1].name) ELSE JsNull
                        ELSE config.defaultServerName]
    /\ UNCHANGED <<sessionVars, nameVars, clientVars, schemaVars>>

\* Lines 100-108.
setDefaultServer(name) ==
    /\ configCall' = [operation |-> "setDefaultServer", name |-> name, before |-> config]
    /\ config' = setDefaultServerOn(config, name)
    /\ UNCHANGED <<sessionVars, nameVars, clientVars, schemaVars>>

InitConfig ==
    /\ currentSessionTools = <<>>
    /\ dpc = "idle"
    /\ configuredServers = <<>>
    /\ di = 0
    /\ outcome = <<>>
    /\ tableBefore = Undefined
    /\ clients = <<>>
    /\ dynamicDeclarations = Undefined
    /\ NoTurn
    /\ nameIn = Undefined
    /\ nameOut = Undefined
    /\ NoClient
    /\ NoSchema
    /\ NoConfig

NextConfig ==
    \/ \E name \in ConfigNames, url \in ConfigUrls : addServer(name, url)
    \/ \E name \in ConfigNames : removeServer(name)
    \/ \E name \in ConfigNames : setDefaultServer(name)

SpecConfig == InitConfig /\ [][NextConfig]_vars

(***************************************************************************)
(* One GenericMcpClient object on its own, from its construction.          *)
(***************************************************************************)

InitClient ==
    /\ currentSessionTools = <<>>
    /\ dpc = "idle"
    /\ configuredServers = <<>>
    /\ di = 0
    /\ outcome = <<>>
    /\ tableBefore = Undefined
    /\ clients = <<>>
    /\ dynamicDeclarations = Undefined
    /\ NoTurn
    /\ nameIn = Undefined
    /\ nameOut = Undefined
    /\ client = NewClient(Server1.url, [op |-> "own"])
    /\ cpc = "idle"
    /\ callArgs = Undefined
    /\ sent = <<>>
    /\ ret = Undefined
    /\ NoSchema
    /\ NoConfig

NextClient ==
    \/ connect
    \/ \E reply \in TransportReplies : connectSettled(reply)
    \/ disconnect
    \/ \E reply \in TransportReplies : closeSettled(reply)
    \/ \E mcpToolName \in ToolNames, mcpArguments \in ArgValues :
          callMcpTool(mcpToolName, mcpArguments)
    \/ \E reply \in CallReplies : callToolSettled(reply)
    \/ listMcpTools
    \/ \E reply \in ListReplies : listToolsSettled(reply)

SpecClient == InitClient /\ [][NextClient]_vars

(***************************************************************************)
(* Properties.                                                             *)
(***************************************************************************)

Range(seq) == {seq[i] : i \in DOMAIN seq}

TurnActive == tpc \in {"while", "sendMessage", "connect", "callTool", "disconnect"}

\* The turn returned the exhausted-rounds fallback.
Exhausted == tpc = "returned" /\ result = [text |-> ExhaustedText]

\* The turn returned anything else.
Answered == tpc = "returned" /\ result # [text |-> ExhaustedText]

\* The calls of the last response all have their answer, and the answers are
\* the outbound message: about to be sent (line 161 done) or dropped
\* (Exhausted).
RoundOver == functionCalls # <<>> /\ (tpc = "while" \/ Exhausted)

\* No entry of the table has this function name.
IsUnmappedName(name) ==
    \A e \in Range(currentSessionTools) : e.geminiFunctionDeclaration.name # name

ClientsFor(j) == {c \in Range(clients) : c.madeFor = [op |-> "call", index |-> j]}

ConnectedClients == {i \in DOMAIN clients : clients[i].connected}

\* The tool reports an input schema that is an object schema of type "object".
HasObjectInputSchema(t) ==
    /\ "inputSchema" \in DOMAIN t
    /\ "boolean" \notin DOMAIN t.inputSchema
    /\ "type" \in DOMAIN t.inputSchema
    /\ t.inputSchema.type = [str |-> "object"]

C1_CallsBounded ==
    /\ modelCalls <= 5
    /\ (tpc = "returned" /\ functionCalls # <<>>) => Exhausted
    /\ Exhausted => (modelCalls = 5 /\ functionCalls # <<>>)

\* C1: a turn makes at most 5 model calls; a turn whose every response
\* requested a function call ends by returning the exhausted-rounds text, a
\* return and not a raised error (a turn raises only out of a model call that
\* failed); and, the awaited requests being settled, every turn that started
\* ends: Answered, Exhausted, or raised by a model call that failed.
C1_TurnBoundedAndEnds ==
    /\ []C1_CallsBounded
    /\ [][tpc' = "raised" => tpc = "sendMessage"]_vars
    /\ TurnActive ~> (Answered \/ Exhausted \/ tpc = "raised")

C1_Witness == Exhausted /\ modelCalls = 5 /\ Len(functionCalls) >= 2

\* C2: a requested call whose name no table entry has is answered, in the
\* round's responses, under its own name with an error; no client is created
\* for it; the turn does not raise over it; and when the round is over every
\* other requested call has been executed (a client was created for it).
C2_UnmappedNameIsAnswered ==
    /\ [](\A j \in 1..Len(functionCalls) :
            /\ (j < ci /\ IsUnmappedName(functionCalls[j].name)) =>
                  /\ j <= Len(toolResponses)
                  /\ toolResponses[j].functionResponse.name = functionCalls[j].name
                  /\ "error" \in DOMAIN toolResponses[j].functionResponse.response
                  /\ ClientsFor(j) = {}
            /\ (RoundOver /\ ~IsUnmappedName(functionCalls[j].name)) =>
                  /\ ClientsFor(j) # {}
                  /\ j <= Len(toolResponses))
    /\ [][tpc' = "raised" => tpc = "sendMessage"]_vars

C2_Witness ==
    /\ RoundOver
    /\ Len(functionCalls) = 2
    /\ IsUnmappedName(functionCalls[1].name)
    /\ wire[2].kind = "called"

\* C3: the answers collected in a round are in the order of the requested
\* calls, and when the round is over the outbound message holds exactly one
\* functionResponse per requested call, the i-th under the i-th call's name.
C3_ResponsesInRequestOrder ==
    /\ \A j \in 1..Len(toolResponses) :
          /\ j <= Len(functionCalls)
          /\ toolResponses[j].functionResponse.name = functionCalls[j].name
    /\ RoundOver =>
          /\ Len(currentMessageForGemini) = Len(functionCalls)
          /\ \A i \in 1..Len(functionCalls) :
                /\ DOMAIN currentMessageForGemini[i] = {"functionResponse"}
                /\ currentMessageForGemini[i].functionResponse.name
                      = functionCalls[i].name

C3_Witness ==
    /\ RoundOver
    /\ Len(functionCalls) = 2
    /\ wire[1].kind = "connectFailed"
    /\ wire[2].kind = "called"
    /\ "message" \in DOMAIN wire[2].reply

\* C4: a call that resolves to the mapping m and whose connect succeeded is
\* sent by a client created for m's server URL, as a request for m's tool
\* name, which is a name that server reported, with the model's arguments;
\* what the call returns is the response under the requested function name.
C4_CallsTheSourceTool ==
    \A j \in 1..Len(wire) :
        wire[j].kind = "called" =>
            LET call == functionCalls[j]
                m == findDynamicallyMappedTool(call.name)
            IN  /\ wire[j].request = [serverUrl |-> m.mcpServerUrl,
                                      name |-> m.mcpToolName,
                                      arguments |-> call.args]
                /\ \E c \in ClientsFor(j) : c.serverUrl = m.mcpServerUrl
                /\ \E t \in Range(ToolsOf(m.mcpServerUrl)) :
                      t.name = wire[j].request.name
                /\ "reply" \in DOMAIN wire[j] =>
                      LET answer == toolResponses[j].functionResponse
                      IN  /\ answer.name = call.name
                          /\ "result" \in DOMAIN wire[j].reply =>
                                answer.response = wire[j].reply.result
                          /\ "message" \in DOMAIN wire[j].reply =>
                                /\ answer.response.isError
                                /\ "error" \notin DOMAIN answer.response

C4_Witness ==
    \E j \in 1..Len(wire) :
        /\ wire[j].kind = "called"
        /\ "reply" \in DOMAIN wire[j]
        /\ "result" \in DOMAIN wire[j].reply
        /\ "isError" \in DOMAIN wire[j].reply.result
        /\ wire[j].request.name = <<"c", "-", "d">>
        /\ functionCalls[j].name = <<"a", "_", "b", "_", "c", "_", "d">>

\* C5: a model call after the first of a turn follows a response that
\* requested calls, tools are executed only for a response that requested
\* calls, and a turn that was answered made no model call after the response
\* without calls and created no client in that round.
C5_ReturnsOnFirstResponseWithoutCalls ==
    /\ [][(modelCalls' > modelCalls /\ modelCalls >= 1) => functionCalls # <<>>]_vars
    /\ [](tpc \in {"connect", "callTool", "disconnect"} => functionCalls # <<>>)
    /\ [](Answered =>
            /\ functionCalls = <<>>
            /\ modelCalls = attempt
            /\ clients = <<>>)

C5_Witness == Answered /\ attempt = 3 /\ result = [text |-> "It is 5."]

\* C6: at most one client is connected at any moment, no two clients were
\* created for the same call, every client of a round was created for a call
\* of the round, and while a model call is outstanding or the turn is over no
\* client created for a call is connected.
C6_OneToolClientAtATime ==
    /\ Cardinality(ConnectedClients) <= 1
    /\ \A i, j \in DOMAIN clients : i # j => clients[i].madeFor # clients[j].madeFor
    /\ \A c \in Range(clients) :
          c.madeFor.op = "call" =>
              /\ c.madeFor.index \in 1..Len(functionCalls)
              /\ (~TurnActive \/ tpc \in {"while", "sendMessage"}) => ~c.connected

C6_Witness ==
    /\ RoundOver
    /\ Len(clients) = 2
    /\ wire[1].kind = "called"
    /\ "message" \in DOMAIN wire[1].reply
    /\ wire[2].kind = "connectFailed"

\* C7: when a pass is over every server of the list was visited, a server
\* whose connect or listing failed has no entry in the table, and every tool
\* with an object input schema that a server listed has its mapping there.
C7_FailedServerDoesNotStopDiscovery ==
    (dpc = "done" /\ outcome # <<>>) =>
        /\ Len(outcome) = Len(configuredServers)
        /\ \A k \in 1..Len(outcome) :
              LET server == configuredServers[k]
              IN  /\ outcome[k].kind \in {"connectFailed", "listFailed"} =>
                        \A e \in Range(currentSessionTools) :
                            e.mcpServerUrl # server.url
                  /\ outcome[k].kind = "listed" =>
                        \A t \in Range(outcome[k].tools) :
                            HasObjectInputSchema(t) =>
                                \E e \in Range(currentSessionTools) :
                                    /\ e.mcpServerName = server.name
                                    /\ e.mcpServerUrl = server.url
                                    /\ e.mcpToolName = t.name

C7_Witness ==
    /\ dpc = "done"
    /\ Len(outcome) = 3
    /\ outcome[1].kind = "listed" /\ outcome[1].tools # <<>>
    /\ outcome[2].kind = "connectFailed"
    /\ outcome[3].kind = "listed" /\ outcome[3].tools # <<>>
    /\ Len(currentSessionTools) = 2

\* C8: of the clients a pass created only the newest can be connected (a
\* server's client is disconnected before the next server's is created), and
\* none is connected when the next connect is awaited or the pass is over.
C8_DiscoveryClosesEachConnection ==
    /\ \A i \in DOMAIN clients :
          (clients[i].madeFor.op = "discovery" /\ clients[i].connected) =>
              /\ i = Len(clients)
              /\ dpc \in {"list", "disconnect"}
              /\ clients[i].madeFor.index = di
    /\ Cardinality(ConnectedClients) <= 1

C8_Witness ==
    /\ dpc = "done"
    /\ Len(outcome) = 3
    /\ outcome[1].kind = "listFailed"
    /\ outcome[2].kind = "listed"
    /\ outcome[3].kind = "connectFailed"

\* C9: every entry of the table comes from a tool whose input schema is an
\* object schema of type "object": a tool that reported no input schema, a
\* boolean schema or a schema of another type has no entry.
C9_OnlyObjectSchemasRegistered ==
    \A e \in Range(currentSessionTools) :
        \A t \in Range(ToolsOf(e.mcpServerUrl)) :
            t.name = e.mcpToolName => HasObjectInputSchema(t)

C9_Witness ==
    /\ dpc = "done"
    /\ Len(outcome) = 3
    /\ \A k \in 1..3 : /\ outcome[k].kind = "listed"
                       /\ outcome[k].tools = ToolsOf(configuredServers[k].url)
    /\ Len(currentSessionTools) = 3

\* The character a character of a name becomes.
Sanitized(c) == IF c \in IdentChars THEN c ELSE "_"

\* C10: the derived function name is the first 63 characters of the
\* sanitized server name, "_", and the sanitized tool name; it has 1 to 63
\* characters, all of them in [A-Za-z0-9_].
C10_DerivedName ==
    IsDefined(nameOut) =>
        LET s == nameIn.server
            t == nameIn.tool
            n == Len(s) + 1 + Len(t)
            out == nameOut.name
        IN  /\ Len(out) = IF n > 63 THEN 63 ELSE n
            /\ Len(out) >= 1
            /\ Len(out) <= 63
            /\ \A i \in 1..Len(out) :
                  /\ out[i] \in IdentChars
                  /\ out[i] = IF i <= Len(s) THEN Sanitized(s[i])
                              ELSE IF i = Len(s) + 1 THEN "_"
                              ELSE Sanitized(t[i - Len(s) - 1])

C10_Witness ==
    /\ IsDefined(nameOut)
    /\ Len(nameIn.server) + 1 + Len(nameIn.tool) > 63
    /\ Len(nameIn.server) > 0
    /\ nameIn.server[1] = "."
    /\ nameOut.name[1] = "_"

\* The function name of a tool named t on a server named s.
ExpectedName(s, t) ==
    LET n == Len(s) + 1 + Len(t)
    IN  [i \in 1..(IF n > 63 THEN 63 ELSE n) |->
            IF i <= Len(s) THEN Sanitized(s[i])
            ELSE IF i = Len(s) + 1 THEN "_"
            ELSE Sanitized(t[i - Len(s) - 1])]

EntryName(i) == currentSessionTools[i].geminiFunctionDeclaration.name

\* A discovery pass is over and what it saw has not been forgotten.
PassOver == dpc = "done" /\ IsDefined(tableBefore)

\* C11 as stated: after a discovery pass no two entries of the table have
\* the same function name (the configured servers have distinct names).
C11_NamesUnique ==
    PassOver =>
        \A i, j \in DOMAIN currentSessionTools : i # j => EntryName(i) # EntryName(j)

\* C11: after a discovery pass every entry is named by the derivation from
\* its own server name and tool name, so two entries have the same function
\* name exactly when the sanitized "<server>_<tool>" strings of their pairs
\* agree in the first 63 characters; entries of servers with distinct names
\* can have the same name, and both stay in the table.
C11_NamesCollideAsDerived ==
    PassOver =>
        /\ \A i \in DOMAIN currentSessionTools :
              LET e == currentSessionTools[i]
              IN  EntryName(i) = ExpectedName(e.mcpServerName, e.mcpToolName)
        /\ \A i, j \in DOMAIN currentSessionTools :
              LET e == currentSessionTools[i]
                  f == currentSessionTools[j]
              IN  (EntryName(i) = EntryName(j)) <=>
                      (ExpectedName(e.mcpServerName, e.mcpToolName)
                          = ExpectedName(f.mcpServerName, f.mcpToolName))

C11_Witness ==
    /\ PassOver
    /\ \E i, j \in DOMAIN currentSessionTools :
          /\ i < j
          /\ EntryName(i) = EntryName(j)
          /\ currentSessionTools[i].mcpServerName # currentSessionTools[j].mcpServerName
    /\ \E i, j \in DOMAIN currentSessionTools : EntryName(i) # EntryName(j)
    /\ \A i, j \in DOMAIN configuredServers :
          i # j => configuredServers[i].name # configuredServers[j].name

\* The place of the server of entry e in the list given to the pass, and the
\* place of its tool in that server's listing.
ServerPlace(e) ==
    CHOOSE k \in DOMAIN configuredServers : configuredServers[k].url = e.mcpServerUrl

ToolPlace(e) ==
    LET tools == outcome[ServerPlace(e)].tools
    IN  CHOOSE t \in DOMAIN tools : tools[t].name = e.mcpToolName

\* The first place of the table that holds the function name.
FirstPlace(name) ==
    CHOOSE i \in DOMAIN currentSessionTools :
        /\ EntryName(i) = name
        /\ \A k \in 1..(i - 1) : EntryName(k) # name

\* C12: the table is in registration order (the order of the servers given
\* to the pass and, within a server, of its listing); a requested name that
\* no entry has is found unmapped, and only such a name; for any other
\* requested name the entry the call is run with is the first of the table
\* with that name, and its client is created for that entry's server.
C12_LookupReturnsFirstRegistered ==
    /\ PassOver =>
          \A i, j \in DOMAIN currentSessionTools :
              i < j =>
                  LET e == currentSessionTools[i]
                      f == currentSessionTools[j]
                  IN  \/ ServerPlace(e) < ServerPlace(f)
                      \/ /\ ServerPlace(e) = ServerPlace(f)
                         /\ ToolPlace(e) < ToolPlace(f)
    /\ \A j \in 1..Len(wire) :
          (wire[j].kind = "unmapped") <=> IsUnmappedName(functionCalls[j].name)
    /\ tpc \in {"connect", "callTool", "disconnect"} =>
          /\ ~IsUnmappedName(functionCalls[ci].name)
          /\ mappedTool = currentSessionTools[FirstPlace(functionCalls[ci].name)]
          /\ mcpClient.serverUrl
                = currentSessionTools[FirstPlace(functionCalls[ci].name)].mcpServerUrl

C12_Witness ==
    /\ tpc = "callTool"
    /\ \E i, j \in DOMAIN currentSessionTools :
          /\ i < j
          /\ EntryName(i) = functionCalls[ci].name
          /\ EntryName(j) = functionCalls[ci].name
          /\ mappedTool = currentSessionTools[i]
          /\ mappedTool # currentSessionTools[j]

\* Where an entry comes from.
Source(e) == [server |-> e.mcpServerName, url |-> e.mcpServerUrl, tool |-> e.mcpToolName]

\* Where the entries built from the k-th server's answer come from.
SourcesOf(k) ==
    IF outcome[k].kind = "listed"
    THEN LET tools == SelectSeq(outcome[k].tools, HasObjectInputSchema)
         IN  [i \in 1..Len(tools) |->
                 [server |-> configuredServers[k].name,
                  url |-> configuredServers[k].url,
                  tool |-> tools[i].name]]
    ELSE <<>>

\* Where the entries built from the answers of servers 1..k come from.
RECURSIVE PassSources(_)
PassSources(k) == IF k = 0 THEN <<>> ELSE PassSources(k - 1) \o SourcesOf(k)

\* C13: when a pass is over the table holds exactly the mappings built in
\* that pass, in order: one per tool with an object input schema that a
\* server of the pass listed, and nothing of the table the pass found.
C13_TableReplacedByPass ==
    PassOver =>
        /\ Len(outcome) = Len(configuredServers)
        /\ Len(currentSessionTools) = Len(PassSources(Len(outcome)))
        /\ \A i \in DOMAIN currentSessionTools :
              Source(currentSessionTools[i]) = PassSources(Len(outcome))[i]

C13_Witness ==
    /\ PassOver
    /\ Len(tableBefore.table) = 3
    /\ Len(outcome) = 3
    /\ \A k \in 1..3 : outcome[k].kind \in {"connectFailed", "listFailed"}
    /\ currentSessionTools = <<>>

\* C14 as stated: the table changes at most once in a pass, from the table
\* the pass found to the table the pass ends with, so that a reader at a
\* suspension point of the pass sees one or the other in full.
C14_TableSwapIsAtomic ==
    [][currentSessionTools' # currentSessionTools
          => tableBefore' = [table |-> currentSessionTools]]_vars

\* The method last called on the object used on its own.
LastCall(method) == IsDefined(ret) /\ ret.method = method

\* The requests the method last called has given the transport.
RequestsOfCall == Len(sent) - ret.sentBefore

Rejected(reply) == "message" \in DOMAIN reply

\* C15: callMcpTool called on a client that is not connected raises and
\* gives the transport no request; called on a connected client it sends the
\* request and never raises: when client.callTool rejects it returns a
\* result with isError true whose content is a text holding the tool's name
\* and the error's message, and when it resolves it returns what it
\* resolved to.
C15_CallMcpToolRaisesOnlyUnconnected ==
    LastCall("callMcpTool") =>
        /\ ~ret.before =>
              /\ ret.kind = "raised"
              /\ RequestsOfCall = 0
        /\ ret.before =>
              /\ ret.kind # "raised"
              /\ RequestsOfCall = 1
              /\ sent[Len(sent)].request = "callTool"
              /\ ret.kind = "returned" =>
                    /\ Rejected(ret.reply) =>
                          /\ ret.value.isError
                          /\ Len(ret.value.content) = 1
                          /\ ret.value.content[1].type = "text"
                          /\ Len(ret.value.content[1].text) = 4
                          /\ ret.value.content[1].text[2] = sent[Len(sent)].name
                          /\ ret.value.content[1].text[4] = ret.reply.message
                    /\ ~Rejected(ret.reply) => ret.value = ret.reply.result

C15_Witness ==
    /\ LastCall("callMcpTool")
    /\ ret.before
    /\ ret.kind = "returned"
    /\ Rejected(ret.reply)
    /\ ret.value.isError
    /\ \E k \in 1..(Len(sent) - 1) :
          /\ sent[k].request = "callTool"
          /\ sent[k].name # sent[Len(sent)].name

\* C16: connect called on a connected client returns without a transport
\* connect and leaves the client connected; called on a client that is not
\* connected it asks the transport once, the flag stays false while that is
\* awaited, and it ends returned with the flag true when the transport
\* connect resolved, raised with the transport's error and the flag false
\* when it rejected.
C16_ConnectIdempotentAndFailsCleanly ==
    LastCall("connect") =>
        /\ ret.before =>
              /\ ret.kind = "returned"
              /\ RequestsOfCall = 0
              /\ isConnected(client)
        /\ ~ret.before =>
              /\ RequestsOfCall = 1
              /\ sent[Len(sent)].request = "connect"
              /\ ret.kind = "pending" => ~isConnected(client)
              /\ ret.kind = "returned" =>
                    /\ ~Rejected(ret.reply)
                    /\ isConnected(client)
              /\ ret.kind = "raised" =>
                    /\ Rejected(ret.reply)
                    /\ ret.value = ret.reply
                    /\ ~isConnected(client)

C16_Witness ==
    /\ LastCall("connect")
    /\ ~ret.before
    /\ ret.kind = "raised"
    /\ ~isConnected(client)
    /\ Len(sent) = 3
    /\ sent[2].request = "close"

\* C17: disconnect never raises; called on a client that is not connected
\* it makes no close call; called on a connected client it asks the
\* transport to close once and, when it has returned, the flag is false,
\* whether close resolved or rejected.
C17_DisconnectAlwaysDisconnects ==
    LastCall("disconnect") =>
        /\ ret.kind # "raised"
        /\ ~ret.before =>
              /\ ret.kind = "returned"
              /\ RequestsOfCall = 0
        /\ ret.before =>
              /\ RequestsOfCall = 1
              /\ sent[Len(sent)].request = "close"
        /\ ret.kind = "returned" => ~isConnected(client)

C17_Witness ==
    /\ LastCall("disconnect")
    /\ ret.before
    /\ ret.kind = "returned"
    /\ Rejected(ret.reply)
    /\ ~isConnected(client)

\* C18: listMcpTools never raises; called on a client that is not connected
\* it returns null and gives the transport no request; called on a connected
\* client it returns null when client.listTools rejected and, when it
\* resolved, the sequence of the tools reported (the empty sequence for no
\* tools), never null.
C18_ListMcpToolsNullOnlyOnFailure ==
    LastCall("listMcpTools") =>
        /\ ret.kind # "raised"
        /\ ~ret.before =>
              /\ ret.kind = "returned"
              /\ ret.value = JsNull
              /\ RequestsOfCall = 0
        /\ ret.before =>
              /\ RequestsOfCall = 1
              /\ sent[Len(sent)].request = "listTools"
              /\ ret.kind = "returned" =>
                    /\ Rejected(ret.reply) => ret.value = JsNull
                    /\ ~Rejected(ret.reply) =>
                          /\ "arr" \in DOMAIN ret.value
                          /\ "tools" \in DOMAIN ret.reply.response =>
                                ret.value.arr = ret.reply.response.tools
                          /\ "tools" \notin DOMAIN ret.reply.response =>
                                ret.value.arr = <<>>

C18_Witness ==
    /\ LastCall("listMcpTools")
    /\ ret.before
    /\ ret.kind = "returned"
    /\ ~Rejected(ret.reply)
    /\ ret.reply.response = [tools |-> <<>>]
    /\ ret.value = Arr(<<>>)

\* The type names of the fixed table of lines 37-42.
SupportedTypes == {"string", "number", "integer", "boolean", "array", "object"}

\* The type name a declared type stands for: the name itself; for a list of
\* candidates, what its first member that is not null stands for (which
\* member of a list counts is the translator's choice of lines 31-33).
RECURSIVE ResolvedType(_)
ResolvedType(t) ==
    IF "str" \in DOMAIN t
    THEN t.str
    ELSE IF "arr" \in DOMAIN t
    THEN LET found == {i \in DOMAIN t.arr : "null" \notin DOMAIN t.arr[i]}
         IN  IF found = {} THEN "" ELSE ResolvedType(t.arr[Least(found)])
    ELSE ""

\* The property schema is no boolean schema and its type is in the table.
Translatable(node) ==
    /\ ~IsBooleanSchema(node)
    /\ "type" \in DOMAIN node
    /\ ResolvedType(node.type) \in SupportedTypes

\* The input is an object schema of type "object" that holds properties.
DeclaresProperties(node) ==
    /\ ~IsBooleanSchema(node)
    /\ "arr" \notin DOMAIN node
    /\ "type" \in DOMAIN node
    /\ node.type = Str("object")
    /\ "properties" \in DOMAIN node

\* The keys of out are the translatable keys of props, here and below.
RECURSIVE KeysExact(_, _)
KeysExact(props, out) ==
    /\ DOMAIN out = {key \in DOMAIN props : Translatable(props[key])}
    /\ \A key \in DOMAIN out :
          LET node == props[key]
              type == ResolvedType(node.type)
          IN  /\ (type = "object" /\ "properties" \in DOMAIN node) =>
                    /\ "properties" \in DOMAIN out[key]
                    /\ KeysExact(node.properties, out[key].properties)
              /\ (type = "array" /\ "items" \in DOMAIN node
                                 /\ DeclaresProperties(node.items)) =>
                    /\ "items" \in DOMAIN out[key]
                    /\ KeysExact(node.items.properties, out[key].items.properties)

\* C19: for an input schema of type "object", at every nesting depth, the
\* keys of the translated properties are exactly the input keys whose schema
\* is not a boolean schema and whose type is in the fixed table: no key is
\* invented, and a property that is not translated takes no other property
\* and no enclosing schema with it.
C19_TranslatedKeysExact ==
    (IsDefined(schemaOut) /\ DeclaresProperties(schemaIn)) =>
        /\ IsDefined(schemaOut.schema)
        /\ KeysExact(schemaIn.properties, schemaOut.schema.properties)

C19_Witness ==
    /\ IsDefined(schemaOut)
    /\ DeclaresProperties(schemaIn)
    /\ DOMAIN schemaIn.properties = {"p", "q"}
    /\ DeclaresProperties(schemaIn.properties.p)
    /\ schemaIn.properties.p.properties.k = [type |-> Arr(<<Str("string"), Str("null")>>)]
    /\ DOMAIN schemaOut.schema.properties = {"p"}
    /\ DOMAIN schemaOut.schema.properties.p.properties = {"k"}

\* The input is a boolean schema, or an object schema whose type is missing
\* or is not "object".
NotObjectTyped(node) ==
    IsBooleanSchema(node) \/ "type" \notin DOMAIN node \/ node.type # Str("object")

NonNullCandidates(t) ==
    {i \in DOMAIN t.arr : "null" \notin DOMAIN t.arr[i] /\ t.arr[i] # Str("null")}

\* The SchemaType the fixed table gives for a type name.
TableType(name) ==
    CASE name = "string"  -> SchemaType("STRING")
      [] name = "number"  -> SchemaType("NUMBER")
      [] name = "integer" -> SchemaType("INTEGER")
      [] name = "boolean" -> SchemaType("BOOLEAN")
      [] name = "array"   -> SchemaType("ARRAY")
      [] name = "object"  -> SchemaType("OBJECT")

\* C21 as stated: a property whose type is a list of candidates is translated
\* with the type of the first candidate that is not the null type (so
\* ["null", "string"] gives STRING); when every candidate is null the property
\* is dropped, and its sibling is translated as it would be anyway.
C21_FirstNonNullCandidate ==
    (IsDefined(schemaOut) /\ DeclaresProperties(schemaIn)) =>
        \A key \in DOMAIN schemaIn.properties :
            LET node == schemaIn.properties[key]
            IN  (~IsBooleanSchema(node) /\ "type" \in DOMAIN node
                                        /\ "arr" \in DOMAIN node.type) =>
                    LET found == NonNullCandidates(node.type)
                    IN  IF found = {}
                        THEN /\ key \notin DOMAIN schemaOut.schema.properties
                             /\ \A other \in DOMAIN schemaIn.properties \ {key} :
                                    Translatable(schemaIn.properties[other]) =>
                                        other \in DOMAIN schemaOut.schema.properties
                        ELSE LET first == node.type.arr[Least(found)]
                             IN  first.str \in SupportedTypes =>
                                    /\ key \in DOMAIN schemaOut.schema.properties
                                    /\ schemaOut.schema.properties[key].type =
                                          TableType(first.str)

\* The enum of each property of out is the one its input calls for, here and
\* below.
RECURSIVE EnumExact(_, _)
EnumExact(props, out) ==
    \A key \in DOMAIN out :
        LET node == props[key]
            prop == out[key]
        IN  /\ "enum" \in DOMAIN prop <=>
                    /\ prop.type = SchemaType("STRING")
                    /\ "enum" \in DOMAIN node
                    /\ "arr" \in DOMAIN node.enum
            /\ "enum" \in DOMAIN prop =>
                    /\ Len(prop.enum) = Len(node.enum.arr)
                    /\ \A i \in 1..Len(prop.enum) :
                            prop.enum[i] = JsString(node.enum.arr[i])
            /\ (prop.type = SchemaType("OBJECT") /\ "properties" \in DOMAIN node) =>
                    EnumExact(node.properties, prop.properties)
            /\ (prop.type = SchemaType("ARRAY") /\ "items" \in DOMAIN node
                                                /\ DeclaresProperties(node.items)) =>
                    EnumExact(node.items.properties, prop.items.properties)

\* C22: a translated property has an enum field exactly when its translated
\* type is STRING and the input property has an enum that is a sequence; the
\* enum is then the input enum, literal by literal in the same order, each
\* turned into a string. A property of any other type has no enum field.
C22_EnumOnlyOnString ==
    (IsDefined(schemaOut) /\ DeclaresProperties(schemaIn)) =>
        EnumExact(schemaIn.properties, schemaOut.schema.properties)

C22_Witness ==
    /\ IsDefined(schemaOut)
    /\ DeclaresProperties(schemaIn)
    /\ DOMAIN schemaIn.properties = {"p", "q"}
    /\ schemaIn.properties.p =
          [type |-> Str("number"), enum |-> Arr(<<[num |-> 1], [num |-> 2]>>)]
    /\ Field(schemaIn.properties.q, "enum") = Arr(<<Str("a"), [num |-> 1]>>)
    /\ DOMAIN schemaOut.schema.properties = {"p", "q"}
    /\ schemaOut.schema.properties.p.type = SchemaType("NUMBER")
    /\ "enum" \notin DOMAIN schemaOut.schema.properties.p
    /\ schemaOut.schema.properties.q.type = SchemaType("STRING")
    /\ schemaOut.schema.properties.q.enum = <<"a", "1">>

\* The array properties of props are all in out, with the items their input
\* calls for, here and below.
RECURSIVE ItemsExact(_, _)
ItemsExact(props, out) ==
    /\ \A key \in DOMAIN props :
            (Translatable(props[key]) /\ ResolvedType(props[key].type) = "array") =>
                /\ key \in DOMAIN out
                /\ out[key].type = SchemaType("ARRAY")
    /\ \A key \in DOMAIN out :
          LET node == props[key]
              prop == out[key]
          IN  /\ prop.type = SchemaType("ARRAY") =>
                    IF "items" \in DOMAIN node /\ IsPlainObject(node.items)
                    THEN /\ "items" \in DOMAIN prop
                         /\ prop.items = translateMcpSchemaToGeminiSchema(node.items)
                         /\ DeclaresProperties(node.items) =>
                                ItemsExact(node.items.properties, prop.items.properties)
                    ELSE "items" \notin DOMAIN prop
              /\ (prop.type = SchemaType("OBJECT") /\ "properties" \in DOMAIN node) =>
                    ItemsExact(node.properties, prop.properties)

\* C23: a property whose type is array is always translated, as an ARRAY;
\* when its items is one schema object, the translation of that schema is
\* attached as items; when its items is a sequence (tuple typing), is not an
\* object, or is absent, the ARRAY has no items.
C23_ArrayItems ==
    (IsDefined(schemaOut) /\ DeclaresProperties(schemaIn)) =>
        ItemsExact(schemaIn.properties, schemaOut.schema.properties)

C23_Witness ==
    /\ IsDefined(schemaOut)
    /\ DeclaresProperties(schemaIn)
    /\ DOMAIN schemaIn.properties = {"p", "q"}
    /\ schemaIn.properties.p =
          [type |-> Str("array"),
           items |-> [type |-> Str("object"),
                      properties |-> [k |-> [type |-> Str("integer")]]]]
    /\ schemaIn.properties.q =
          [type |-> Str("array"), items |-> Arr(<<[type |-> Str("string")]>>)]
    /\ DOMAIN schemaOut.schema.properties = {"p", "q"}
    /\ schemaOut.schema.properties.p.items.properties.k.type = SchemaType("INTEGER")
    /\ schemaOut.schema.properties.q.type = SchemaType("ARRAY")
    /\ "items" \notin DOMAIN schemaOut.schema.properties.q

\* The last call on the store was this operation.
ConfigDid(operation) == IsDefined(configCall) /\ configCall.operation = operation

\* C24: when an addServer that stored its server leaves exactly one server in
\* the list, that server is the default right after it; when it leaves more
\* than one, the default is the one it was before.
C24_FirstServerBecomesDefault ==
    (ConfigDid("addServer") /\ config.servers # configCall.before.servers) =>
        /\ Len(config.servers) = 1 =>
                config.defaultServerName = Str(config.servers[1].name)
        /\ Len(config.servers) > 1 =>
                config.defaultServerName = configCall.before.defaultServerName

C24_Witness ==
    /\ ConfigDid("addServer")
    /\ Len(configCall.before.servers) = 1
    /\ Len(config.servers) = 2
    /\ config.servers[2].name = configCall.name
    /\ config.defaultServerName = Str(config.servers[1].name)

\* C25: no two servers of the list have the same name; an addServer whose
\* name is already in the list, or whose URL new URL() rejects, leaves the list
\* and the default as they were.
C25_NamesUniqueAndAddRejects ==
    /\ \A i, j \in DOMAIN config.servers :
            config.servers[i].name = config.servers[j].name => i = j
    /\ (ConfigDid("addServer")
          /\ (SomeNamed(configCall.before.servers, configCall.name)
                \/ URLThrows(configCall.url))) =>
            config = configCall.before

C25_Witness ==
    /\ ConfigDid("addServer")
    /\ SomeNamed(configCall.before.servers, configCall.name)
    /\ ~URLThrows(configCall.url)
    /\ \A i \in DOMAIN config.servers :
            config.servers[i].name = configCall.name =>
                config.servers[i].url # configCall.url
    /\ Len(config.servers) = 2
    /\ config = configCall.before

\* The places of listServers that are marked as the default.
MarkedDefault == {i \in DOMAIN listServers : listServers[i].default}

\* C29: the stored default name is null exactly when the list is empty, and
\* otherwise names a server of the list, so listServers marks exactly one
\* server when the list is not empty; a removeServer of the default server
\* makes the first remaining server the default; a removeServer or
\* setDefaultServer with a name that is not in the list changes nothing.
C29_DefaultNamesAServer ==
    /\ config.defaultServerName = JsNull <=> config.servers = <<>>
    /\ config.servers # <<>> =>
            /\ \E i \in DOMAIN config.servers :
                    config.defaultServerName = Str(config.servers[i].name)
            /\ Cardinality(MarkedDefault) = 1
    /\ (ConfigDid("removeServer")
          /\ configCall.before.defaultServerName = Str(configCall.name)
          /\ config.servers # <<>>) =>
            /\ config.defaultServerName = Str(config.servers[1].name)
            /\ \E i \in DOMAIN configCall.before.servers :
                    /\ configCall.before.servers[i] = config.servers[1]
                    /\ \A j \in 1..(i - 1) :
                            configCall.before.servers[j].name = configCall.name
    /\ ((ConfigDid("removeServer") \/ ConfigDid("setDefaultServer"))
          /\ ~SomeNamed(configCall.before.servers, configCall.name)) =>
            config = configCall.before

C29_Witness ==
    /\ ConfigDid("removeServer")
    /\ Len(configCall.before.servers) = 3
    /\ configCall.before.servers[2].name = configCall.name
    /\ configCall.before.defaultServerName = Str(configCall.name)
    /\ Len(config.servers) = 2
    /\ config.defaultServerName = Str(configCall.before.servers[1].name)
    /\ MarkedDefault = {1}

\* C26: callMcpTool and disconnect are awaited only on the client of the
\* current call, after its connect succeeded. For a mapped call whose connect
\* failed no request was sent, its answer is an error functionResponse under
\* the call's own name, its client is not connected and no disconnect is
\* awaited on it, and the for loop went on with the next call: at the end of
\* the round every call has its outcome.
C26_ConnectFailureIsLocal ==
    /\ tpc \in {"callTool", "disconnect"} =>
            /\ mcpClient.connected
            /\ mcpClient.madeFor = [op |-> "call", index |-> ci]
            /\ wire[ci].kind = "called"
    /\ \A j \in 1..Len(wire) :
            wire[j].kind = "connectFailed" =>
                /\ "request" \notin DOMAIN wire[j]
                /\ IsDefined(findDynamicallyMappedTool(functionCalls[j].name))
                /\ toolResponses[j].functionResponse.name = functionCalls[j].name
                /\ DOMAIN toolResponses[j].functionResponse.response = {"error"}
                /\ ClientsFor(j) # {}
                /\ \A c \in ClientsFor(j) : ~c.connected
                /\ ~(tpc \in {"callTool", "disconnect"} /\ ci = j)
                /\ j < Len(functionCalls) =>
                        \/ Len(wire) > j
                        \/ tpc = "connect" /\ ci = j + 1
    /\ RoundOver => Len(wire) = Len(functionCalls)

C26_Witness ==
    /\ RoundOver
    /\ Len(functionCalls) = 2
    /\ wire[1].kind = "connectFailed"
    /\ "error" \in DOMAIN toolResponses[1].functionResponse.response
    /\ wire[2].kind = "called"
    /\ "result" \in DOMAIN wire[2].reply
    /\ toolResponses[2].functionResponse.response = wire[2].reply.result

\* C27: a step that changes the mapping table is a step of a discovery pass:
\* the steps of sendMessageToGemini, with their lookups, and the taking of
\* the declarations leave it as it is. The declarations taken are one per
\* entry of the table, in the table's order, and change only by being taken
\* again: the steps of a later discovery pass leave them as they are.
C27_TableWrittenOnlyByDiscovery ==
    /\ [][currentSessionTools' # currentSessionTools => DiscoveryNext]_vars
    /\ [][dynamicDeclarations' # dynamicDeclarations =>
            /\ currentSessionTools' = currentSessionTools
            /\ dynamicDeclarations' =
                  [declarations |->
                      [i \in DOMAIN currentSessionTools |->
                          currentSessionTools[i].geminiFunctionDeclaration]]]_vars
    /\ [][DiscoveryNext => dynamicDeclarations' = dynamicDeclarations]_vars

C27_Witness ==
    /\ IsDefined(dynamicDeclarations)
    /\ Len(dynamicDeclarations.declarations) = 2
    /\ PassOver
    /\ Len(currentSessionTools) = 1
    /\ currentSessionTools[1].geminiFunctionDeclaration
          # dynamicDeclarations.declarations[1]

\* The calls of the last response were all executed: each has its answer, and
\* each mapped call had its connect answered and, connected, its request.
RoundExecuted ==
    /\ functionCalls # <<>>
    /\ Len(wire) = Len(functionCalls)
    /\ Len(toolResponses) = Len(functionCalls)
    /\ \A j \in 1..Len(functionCalls) :
            IF IsUnmappedName(functionCalls[j].name)
            THEN wire[j].kind = "unmapped"
            ELSE \/ wire[j].kind = "connectFailed"
                 \/ wire[j].kind = "called" /\ "reply" \in DOMAIN wire[j]

\* C28: whenever the while test is reached after a model call, the calls of
\* that call's response have been executed, so the tool rounds are as many as
\* the model calls. A turn that ends Exhausted made maxAttempts model calls;
\* the calls of the last response were executed and their answers are the
\* message built at line 161, which the step returning the fallback does not
\* send: it makes no model call.
C28_LastRoundExecutedNotSent ==
    /\ []((tpc = "while" /\ attempt >= 1) => (RoundExecuted /\ modelCalls = attempt))
    /\ [](Exhausted =>
            /\ attempt = maxAttempts
            /\ modelCalls = maxAttempts
            /\ RoundExecuted
            /\ currentMessageForGemini = toolResponses)
    /\ [][(Exhausted' /\ ~Exhausted) =>
            /\ tpc = "while"
            /\ modelCalls' = modelCalls
            /\ currentMessageForGemini' = toolResponses]_vars

C28_Witness ==
    /\ Exhausted
    /\ modelCalls = maxAttempts
    /\ Len(functionCalls) = 2
    /\ wire[1].kind = "called"
    /\ "result" \in DOMAIN wire[1].reply
    /\ wire[2].kind = "unmapped"
    /\ currentMessageForGemini = toolResponses
    /\ Len(toolResponses) = 2

\* The required list of each nested object of out that declares properties is
\* the one of its input, here and below.
RECURSIVE RequiredExact(_, _)
RequiredExact(props, out) ==
    \A key \in DOMAIN out :
        LET node == props[key]
            prop == out[key]
        IN  /\ (prop.type = SchemaType("OBJECT") /\ "properties" \in DOMAIN node) =>
                    /\ "required" \in DOMAIN prop <=> "required" \in DOMAIN node
                    /\ "required" \in DOMAIN prop => prop.required = node.required
                    /\ RequiredExact(node.properties, prop.properties)
            /\ (prop.type = SchemaType("ARRAY") /\ "items" \in DOMAIN node
                                                /\ DeclaresProperties(node.items)) =>
                    RequiredExact(node.items.properties, prop.items.properties)

\* C30: for an input schema of type "object", the translated required list is
\* the input's required list as it is, the empty list when the input has
\* none; a translated nested OBJECT property that declares properties has the
\* required list of its input as it is (and none when its input has none).
\* The lists are not cut down to the translated properties.
C30_RequiredCopied ==
    (IsDefined(schemaOut) /\ ~NotObjectTyped(schemaIn)) =>
        /\ schemaOut.schema.required =
              IF "required" \in DOMAIN schemaIn THEN schemaIn.required ELSE <<>>
        /\ "properties" \in DOMAIN schemaIn =>
              RequiredExact(schemaIn.properties, schemaOut.schema.properties)

C30_Witness ==
    /\ IsDefined(schemaOut)
    /\ DeclaresProperties(schemaIn)
    /\ "required" \in DOMAIN schemaIn
    /\ schemaIn.required = <<"p", "gone">>
    /\ schemaOut.schema.required = <<"p", "gone">>
    /\ DOMAIN schemaOut.schema.properties = {"p"}
    /\ schemaOut.schema.properties.p.type = SchemaType("OBJECT")
    /\ "required" \in DOMAIN schemaOut.schema.properties.p
    /\ schemaOut.schema.properties.p.required = <<"k", "z">>
    /\ DOMAIN schemaOut.schema.properties.p.properties = {"k"}

\* The items attached to each array property of out has the type OBJECT: the
\* empty object schema unless the input items has the type "object", here
\* and below.
RECURSIVE ItemsAreObjects(_, _)
ItemsAreObjects(props, out) ==
    \A key \in DOMAIN out :
        LET node == props[key]
            prop == out[key]
        IN  /\ (prop.type = SchemaType("ARRAY") /\ "items" \in DOMAIN node
                                                /\ IsPlainObject(node.items)) =>
                    /\ "items" \in DOMAIN prop
                    /\ prop.items.type = SchemaType("OBJECT")
                    /\ IF "type" \in DOMAIN node.items /\ node.items.type = Str("object")
                       THEN /\ DOMAIN prop.items = {"type", "properties", "required"}
                            /\ IF "properties" \in DOMAIN node.items
                               THEN /\ KeysExact(node.items.properties,
                                                 prop.items.properties)
                                    /\ ItemsAreObjects(node.items.properties,
                                                       prop.items.properties)
                               ELSE prop.items.properties = <<>>
                       ELSE prop.items = [type |-> SchemaType("OBJECT"),
                                          properties |-> <<>>,
                                          required |-> <<>>]
            /\ (prop.type = SchemaType("OBJECT") /\ "properties" \in DOMAIN node) =>
                    ItemsAreObjects(node.properties, prop.properties)

\* C31: the items attached to an ARRAY property whose input items is one
\* schema object always has the type OBJECT: it is the translated object
\* schema when items.type is "object", and the empty object schema {type:
\* OBJECT, properties: {}, required: []} for every other items type (a scalar
\* type, array, or none), so the type of a scalar element is not kept.
C31_ItemsAlwaysObject ==
    (IsDefined(schemaOut) /\ DeclaresProperties(schemaIn)) =>
        ItemsAreObjects(schemaIn.properties, schemaOut.schema.properties)

C31_Witness ==
    /\ IsDefined(schemaOut)
    /\ DeclaresProperties(schemaIn)
    /\ DOMAIN schemaIn.properties = {"p", "q"}
    /\ schemaIn.properties.p =
          [type |-> Str("array"),
           items |-> [type |-> Str("object"),
                      properties |-> [k |-> [type |-> Str("integer")]]]]
    /\ schemaIn.properties.q =
          [type |-> Str("array"),
           items |-> [type |-> Str("integer"), description |-> Str("d")]]
    /\ DOMAIN schemaOut.schema.properties = {"p", "q"}
    /\ schemaOut.schema.properties.p.items.properties.k.type = SchemaType("INTEGER")
    /\ schemaOut.schema.properties.q.items =
          [type |-> SchemaType("OBJECT"), properties |-> <<>>, required |-> <<>>]

\* C32: while callMcpTool or listMcpTools runs, and when it has ended (with
\* the transport's result, after the transport's rejection, or refused on a
\* client that is not connected), the connected flag is what it was when the
\* method was called; a step that changes the flag is a step of connect or
\* of disconnect.
C32_OnlyConnectAndDisconnectSetFlag ==
    /\ []((LastCall("callMcpTool") \/ LastCall("listMcpTools")) =>
            isConnected(client) = ret.before)
    /\ [][isConnected(client') # isConnected(client) =>
            /\ ret.method \in {"connect", "disconnect"}
            /\ ret'.method = ret.method
            /\ ret.kind = "pending"]_vars

C32_Witness ==
    /\ LastCall("listMcpTools")
    /\ ret.before
    /\ ret.kind = "returned"
    /\ Rejected(ret.reply)
    /\ ret.value = JsNull
    /\ isConnected(client)
    /\ \E k \in 1..Len(sent) : sent[k].request = "callTool"

=============================================================================
